---- MODULE Spec2Model ----
(***************************************************************************)
(* roadpulse-api: hierarchical resource-access resolution and the          *)
(* notification fan-out / read-state engine.                               *)
(*                                                                         *)
(* The database tables are the state.  Every resolver, CRUD function and   *)
(* route handler is an operator or an action translated from its source.   *)
(***************************************************************************)
EXTENDS Integers, Sequences, FiniteSets, Bags, TLC

VARIABLES
    grants,         \* trn_access_control: the set of rows
    locations,      \* mst_locations: location_id -> row
    notifications,  \* mst_notifications rows; notification_id = index
    trackers,       \* trn_notification_tracker rows (a bag of rows)
    clock,          \* the wall clock read by datetime.now()/utcnow()
    inflight,       \* the sessions of the requests that have not committed yet
    vehicles,       \* mst_vehicles rows; vehicle_id = index
    vehicle_logs,   \* trn_vehicle_log rows; log_id = index
    watchlist,      \* mst_watchlist rows; id = index
    resp            \* the response of the last request

vars == <<grants, locations, notifications, trackers, clock, inflight, vehicles, vehicle_logs, watchlist, resp>>

(***************************************************************************)
(* Bounds of the model.                                                    *)
(***************************************************************************)
MaxGrants == 2          \* rows inserted into trn_access_control
MaxNotifications == 1   \* rows inserted into mst_notifications
MaxTime == 3            \* the wall clock runs over 1..MaxTime
MaxInflight == 1        \* requests in flight next to the one that runs

(***************************************************************************)
(* Python None / SQL NULL for an integer column or argument; ids and        *)
(* instants start at 1.                                                    *)
(***************************************************************************)
NoneVal == 0

\* A Python value that is either None or a list of ids.
NoneList == [is_none |-> TRUE, ids |-> {}]

\* A list of ids (order and repetitions are dropped by every consumer).
IdList(ids) == [is_none |-> FALSE, ids |-> ids]

(***************************************************************************)
(* Resource catalog.                                                       *)
(***************************************************************************)
\* mst_users: two scoped users and a creator in company 1, one scoped user
\* in company 2.
MstUser ==
    [u \in 1..4 |->
        CASE u = 1 -> [company_id |-> 1, role |-> "admin",   disabled |-> FALSE, is_deleted |-> FALSE]
          [] u = 2 -> [company_id |-> 1, role |-> "manager", disabled |-> FALSE, is_deleted |-> FALSE]
          [] u = 3 -> [company_id |-> 1, role |-> "creator", disabled |-> FALSE, is_deleted |-> FALSE]
          [] u = 4 -> [company_id |-> 2, role |-> "admin",   disabled |-> FALSE, is_deleted |-> FALSE]]

UserIds == DOMAIN MstUser

\* mst_locations at start: locations 1 and 2 belong to company 1, location 3
\* to company 2.
MstLocation ==
    [l \in 1..3 |->
        [company_id |-> IF l = 3 THEN 2 ELSE 1, disabled |-> FALSE, is_deleted |-> FALSE]]

LocationIds == DOMAIN MstLocation

\* location_name of each location, as its rank in the collation of names:
\* the names do not sort as the ids do.
LocationName == [l \in 1..3 |-> CASE l = 1 -> 3 [] l = 2 -> 1 [] l = 3 -> 2]

\* mst_checkpoints: checkpoint_id -> row.  Checkpoint 12 is disabled.
MstCheckpoint ==
    [c \in {11, 12, 13, 21, 31} |->
        [location_id |-> c \div 10, disabled |-> (c = 12), is_deleted |-> FALSE]]

CheckpointIds == DOMAIN MstCheckpoint

\* sequence_order of each checkpoint: checkpoint 13 comes before 11.
SequenceOrder == [c \in CheckpointIds |-> IF c = 11 THEN 2 ELSE 1]

\* mst_tabs: tab_id -> row.  Tabs 2 and 3 share a display_order (the column
\* is not unique and defaults to 0); tab 4 is disabled.
MstTab ==
    [t \in 1..4 |->
        [display_order |-> CASE t = 1 -> 2 [] t = 2 -> 1 [] t = 3 -> 1 [] t = 4 -> 0,
         disabled |-> (t = 4), is_deleted |-> FALSE]]

TabIds == DOMAIN MstTab

\* mst_components: component_id -> row.  Components 1, 2 and 4 belong to
\* tab 1, component 3 to tab 2; component 4 is disabled.
MstComponent ==
    [c \in 1..4 |->
        [tab_id |-> IF c = 3 THEN 2 ELSE 1, disabled |-> (c = 4), is_deleted |-> FALSE]]

ComponentIds == DOMAIN MstComponent

\* mst_camera: camera_id -> row.  Camera 112 is disabled.
MstCamera ==
    [c \in {111, 112, 131, 311} |->
        [checkpoint_id |-> c \div 10, disabled |-> (c = 112), is_deleted |-> FALSE]]

CameraIds == DOMAIN MstCamera

\* mst_compute_box: box_id -> row.  Box 2 is disabled.
MstComputeBox ==
    [b \in 1..3 |->
        [location_id |-> IF b = 3 THEN 3 ELSE 1, disabled |-> (b = 2), is_deleted |-> FALSE]]

BoxIds == DOMAIN MstComputeBox

(***************************************************************************)
(* Grant payloads: the access_data column.  NULL is the wildcard; a text   *)
(* value is JSON, {"access_ids": [...]}.  Id 9 names no row of any table.  *)
(***************************************************************************)
NullData == [kind |-> "null", access_ids |-> {}]

JsonIds(ids) == [kind |-> "object", access_ids |-> ids]

AccessData(t) ==
    IF t = "location" THEN {NullData, JsonIds({1, 3, 9})}
    ELSE IF t = "checkpoint" THEN {NullData, JsonIds({11, 31})}
    ELSE IF t = "tab" THEN {NullData, JsonIds({1, 4, 9})}
    ELSE {NullData, JsonIds({1, 3, 9})}

\* Text values of access_data that are not {"access_ids": [...]}: the empty
\* string, text that is not JSON, a JSON value that is not an object, an
\* object without access_ids, {"access_ids": null} and {"access_ids": 5}.
MalformedKinds == {"empty", "invalid", "nonobject", "missing", "ids_null", "ids_notlist"}

MalformedData == {[kind |-> k, access_ids |-> {}] : k \in MalformedKinds}

AccessTypes == {"location", "checkpoint"}

\* The four values of access_type (access_control.py:32).
ViewAccessTypes == {"tab", "component", "location", "checkpoint"}

\* json.loads(access_data).get('access_ids', [])
access_ids_of(data) == data.access_ids

\* Python truthiness of a Text column value: None and '' are false.
Truthy(data) == data.kind \notin {"null", "empty"}

(***************************************************************************)
(* Row filters shared by the queries.                                      *)
(***************************************************************************)
\* The filter with the disabled test forgotten.
ActiveGrant_IgnoresDisabled(g) == ~g.is_deleted

\* TrnAccessControl.disabled == False, TrnAccessControl.is_deleted == False
ActiveGrant(g) == ~g.disabled /\ ~g.is_deleted

\* The filter with the disabled test forgotten.
ActiveLocation_IgnoresDisabled(l) == l \in LocationIds /\ ~locations[l].is_deleted

\* MstLocation.disabled == False, MstLocation.is_deleted == False
ActiveLocation(l) == l \in LocationIds /\ ~locations[l].disabled /\ ~locations[l].is_deleted

\* MstCheckpoint.disabled == False, MstCheckpoint.is_deleted == False
ActiveCheckpoint(c) == c \in CheckpointIds /\ ~MstCheckpoint[c].disabled /\ ~MstCheckpoint[c].is_deleted

\* db.query(TrnAccessControl).filter(user_id, disabled == False, is_deleted == False).all()
AccessEntries(user_id) ==
    {g \in grants : g.user_id = user_id /\ ActiveGrant(g)}

\* The entries of one access_type.
EntriesOfType(entries, t) == {g \in entries : g.access_type = t}

(***************************************************************************)
(* configuration/crud.py: get_user_assigned_locations                      *)
(***************************************************************************)
\* The wildcard branch returns the expanded set together with the explicit
\* ids of the other rows.
get_user_assigned_locations_Union(user_id, company_id, role) ==
    LET location_accesses == EntriesOfType(AccessEntries(user_id), "location")
        all_locations == {l \in LocationIds :
                            /\ ActiveLocation(l)
                            /\ (role # "creator" => locations[l].company_id = company_id)}
        location_ids == UNION {access_ids_of(g.access_data) :
                                g \in {h \in location_accesses : Truthy(h.access_data)}}
        valid_locations == {l \in location_ids \cap LocationIds :
                                /\ locations[l].company_id = company_id
                                /\ ActiveLocation(l)}
    IN  IF location_accesses = {} THEN {}
        ELSE IF \E g \in location_accesses : g.access_data = NullData
             THEN all_locations \cup location_ids
        ELSE IF location_ids # {} /\ role # "creator" THEN valid_locations
        ELSE location_ids

get_user_assigned_locations(user_id, company_id, role) ==
    LET location_accesses == EntriesOfType(AccessEntries(user_id), "location")
        all_locations == {l \in LocationIds :
                            /\ ActiveLocation(l)
                            /\ (role # "creator" => locations[l].company_id = company_id)}
        location_ids == UNION {access_ids_of(g.access_data) :
                                g \in {h \in location_accesses : Truthy(h.access_data)}}
        valid_locations == {l \in location_ids \cap LocationIds :
                                /\ locations[l].company_id = company_id
                                /\ ActiveLocation(l)}
    IN  IF location_accesses = {} THEN {}
        ELSE IF \E g \in location_accesses : g.access_data = NullData THEN all_locations
        ELSE IF location_ids # {} /\ role # "creator" THEN valid_locations
        ELSE location_ids

(***************************************************************************)
(* watchlist/utils.py: extract_accessible_locations_checkpoints            *)
(* db is TRUE when the caller passes a session, company_id and role.       *)
(***************************************************************************)
extract_accessible_locations_checkpoints(access_entries, db, company_id, role) ==
    LET loc_entries == EntriesOfType(access_entries, "location")
        cp_entries == EntriesOfType(access_entries, "checkpoint")
        has_all_locations0 == \E g \in loc_entries : g.access_data = NullData
        has_all_checkpoints0 == \E g \in cp_entries : g.access_data = NullData
        location_ids0 == UNION {access_ids_of(g.access_data) :
                                    g \in {h \in loc_entries : h.access_data # NullData}}
        checkpoint_ids0 == UNION {access_ids_of(g.access_data) :
                                    g \in {h \in cp_entries : h.access_data # NullData}}
        narrow == db /\ company_id # NoneVal /\ role # "creator"
        company_locations == {l \in LocationIds :
                                locations[l].company_id = company_id /\ ActiveLocation(l)}
        company_checkpoints == {c \in CheckpointIds :
                                    /\ MstCheckpoint[c].location_id \in company_locations
                                    /\ ActiveCheckpoint(c)}
        \* lines 49-57
        expand_l == has_all_locations0 /\ narrow
        location_ids1 == IF expand_l THEN company_locations ELSE location_ids0
        has_all_locations == has_all_locations0 /\ ~expand_l
        \* lines 60-75
        expand_c == has_all_checkpoints0 /\ narrow
        checkpoint_ids1 == IF expand_c THEN company_checkpoints ELSE checkpoint_ids0
        has_all_checkpoints == has_all_checkpoints0 /\ ~expand_c
        \* lines 78-86
        location_ids2 == IF location_ids1 # {} /\ narrow
                         THEN location_ids1 \cap company_locations
                         ELSE location_ids1
        \* lines 89-102
        checkpoint_ids2 == IF checkpoint_ids1 # {} /\ narrow
                           THEN checkpoint_ids1 \cap company_checkpoints
                           ELSE checkpoint_ids1
    IN  [location_ids |-> IF has_all_locations THEN NoneList ELSE IdList(location_ids2),
         checkpoint_ids |-> IF has_all_checkpoints THEN NoneList ELSE IdList(checkpoint_ids2)]

(***************************************************************************)
(* auth/routes.py: get_user_access_control, the location part of the view  *)
(***************************************************************************)
\* get_access_ids(entry): None means ALL access
get_access_ids(entry) ==
    IF Truthy(entry.access_data)
    THEN IF entry.access_data.kind = "ids_null" THEN NoneList
         ELSE IdList(access_ids_of(entry.access_data))
    ELSE NoneList

\* The scan of lines 206-213 (and 229-236) sets has_all_* at the first
\* wildcard entry and stops.
HasAll(entries) == \E g \in entries : get_access_ids(g).is_none

\* The ids the scan extends into *_ids_list; the list is read only when no
\* entry is a wildcard, and then every entry has been scanned.
ScannedIds(entries) == UNION {get_access_ids(g).ids : g \in entries}

\* get_access_ids(entry) returns a value that list.extend rejects with
\* TypeError (the number of {"access_ids": 5}).
NotIterable(entry) == entry.access_data.kind = "ids_notlist"

\* The outcomes of the scan "for entry in entries: ids = get_access_ids(entry);
\* if ids is None: break; ids_list.extend(ids)" over rows in the order the
\* query returned them: TRUE when the scan raises TypeError.  It raises when
\* it reaches a row that is not iterable before it reaches a wildcard.
ScanRaises(entries) ==
    {raised \in BOOLEAN :
        /\ raised => \E g \in entries : NotIterable(g)
        /\ ~raised => (HasAll(entries) \/ \A g \in entries : ~NotIterable(g))}

\* The outcomes of the four scans of the route (tab, component, location,
\* checkpoint): TRUE when one of them raises.  Nothing in the route catches
\* the exception.
ViewRaises(access_entries) ==
    {raised \in BOOLEAN :
        \E outcome \in [ViewAccessTypes -> BOOLEAN] :
            /\ \A t \in ViewAccessTypes :
                    outcome[t] \in ScanRaises(EntriesOfType(access_entries, t))
            /\ raised = \E t \in ViewAccessTypes : outcome[t]}

get_user_access_control(user_id) ==
    LET access_entries == AccessEntries(user_id)
        location_accesses == EntriesOfType(access_entries, "location")
        checkpoint_accesses == EntriesOfType(access_entries, "checkpoint")
        has_all_locations == HasAll(location_accesses)
        location_ids_list == ScannedIds(location_accesses)
        accessible_locations ==
            IF has_all_locations THEN {l \in LocationIds : ActiveLocation(l)}
            ELSE {l \in location_ids_list \cap LocationIds : ActiveLocation(l)}
        has_all_checkpoints == HasAll(checkpoint_accesses)
        checkpoint_ids_list == ScannedIds(checkpoint_accesses)
        accessible_checkpoints ==
            IF has_all_checkpoints THEN {c \in CheckpointIds : ActiveCheckpoint(c)}
            ELSE IF checkpoint_ids_list # {}
                 THEN {c \in checkpoint_ids_list \cap CheckpointIds : ActiveCheckpoint(c)}
                 ELSE {}
    IN  [locations |->
            {[location_id |-> l,
              checkpoints |-> {c \in accessible_checkpoints : MstCheckpoint[c].location_id = l}]
                : l \in accessible_locations}]

(***************************************************************************)
(* auth/routes.py: get_user_access_control, the composed view.  A query    *)
(* returns a list; without ORDER BY the database fixes no order of it, and *)
(* with ORDER BY none among rows of equal key.                             *)
(***************************************************************************)
\* The lists that hold each element of S once.
ListsOf(S) ==
    {l \in [1..Cardinality(S) -> S] : \A i, j \in DOMAIN l : i # j => l[i] # l[j]}

\* query.all(): the rows in any order.
AnyOrder(S) == ListsOf(S)

\* order_by without effect: the rows in any order.
OrderBy_Unordered(S, column) == ListsOf(S)

\* query.order_by(column).all(): the rows in ascending order of the column.
OrderBy(S, column) ==
    {l \in ListsOf(S) : \A i \in DOMAIN l : i < Len(l) => column[l[i]] <= column[l[i + 1]]}

ActiveTab(t) == t \in TabIds /\ ~MstTab[t].disabled /\ ~MstTab[t].is_deleted

ActiveComponent(c) ==
    c \in ComponentIds /\ ~MstComponent[c].disabled /\ ~MstComponent[c].is_deleted

ActiveCamera(c) == c \in CameraIds /\ ~MstCamera[c].disabled /\ ~MstCamera[c].is_deleted

ActiveBox(b) == b \in BoxIds /\ ~MstComputeBox[b].disabled /\ ~MstComputeBox[b].is_deleted

\* Lines 125-145: the rows of the tab query.
AccessibleTabs(access_entries) ==
    LET tab_accesses == EntriesOfType(access_entries, "tab")
    IN  IF HasAll(tab_accesses) THEN {t \in TabIds : ActiveTab(t)}
        ELSE {t \in ScannedIds(tab_accesses) \cap TabIds : ActiveTab(t)}

\* Lines 147-179: the rows of the component query.
AccessibleComponents(access_entries) ==
    LET component_accesses == EntriesOfType(access_entries, "component")
    IN  IF HasAll(component_accesses) THEN {c \in ComponentIds : ActiveComponent(c)}
        ELSE {c \in ScannedIds(component_accesses) \cap ComponentIds : ActiveComponent(c)}

\* The permissions of a component the map has no key for: the empty dict.
NoPermissions ==
    [can_view |-> FALSE, can_create |-> FALSE, can_update |-> FALSE, can_delete |-> FALSE]

\* Lines 152-172: component_permission_map.get(comp_id, {}).  Under a
\* wildcard entry the map is rebuilt with every bit True; otherwise a
\* component has the bits of the entry that names it.
component_permission_map(access_entries, comp_id) ==
    LET component_accesses == EntriesOfType(access_entries, "component")
        naming == {g \in component_accesses : comp_id \in get_access_ids(g).ids}
    IN  IF HasAll(component_accesses)
        THEN IF ActiveComponent(comp_id)
             THEN [can_view |-> TRUE, can_create |-> TRUE,
                   can_update |-> TRUE, can_delete |-> TRUE]
             ELSE NoPermissions
        ELSE IF naming = {} THEN NoPermissions
        ELSE LET entry == CHOOSE g \in naming : TRUE
             IN  [can_view |-> entry.can_view, can_create |-> entry.can_create,
                  can_update |-> entry.can_update, can_delete |-> entry.can_delete]

\* Lines 205-225: the rows of the location query.
AccessibleLocations(access_entries) ==
    LET location_accesses == EntriesOfType(access_entries, "location")
    IN  IF HasAll(location_accesses) THEN {l \in LocationIds : ActiveLocation(l)}
        ELSE {l \in ScannedIds(location_accesses) \cap LocationIds : ActiveLocation(l)}

\* Lines 227-250: the rows of the checkpoint query.
AccessibleCheckpoints(access_entries) ==
    LET checkpoint_accesses == EntriesOfType(access_entries, "checkpoint")
    IN  IF HasAll(checkpoint_accesses) THEN {c \in CheckpointIds : ActiveCheckpoint(c)}
        ELSE {c \in ScannedIds(checkpoint_accesses) \cap CheckpointIds : ActiveCheckpoint(c)}

\* Lines 252-259: the cameras of the accessible checkpoints.
cameras_for_checkpoints(accessible_checkpoints) ==
    {c \in CameraIds : MstCamera[c].checkpoint_id \in accessible_checkpoints /\ ActiveCamera(c)}

\* Lines 261-268: the compute boxes of the accessible locations.
compute_boxes_for_locations(accessible_locations) ==
    {b \in BoxIds : MstComputeBox[b].location_id \in accessible_locations /\ ActiveBox(b)}

\* [x for x in rows if x in keep]
Filter(rows, keep) ==
    LET Keep(x) == x \in keep
    IN  SelectSeq(rows, Keep)

\* Lines 181-200: tabs with their nested components, from the lists the two
\* queries returned.
BuildTabs(access_entries, accessible_tabs, accessible_components) ==
    [i \in DOMAIN accessible_tabs |->
        LET tab == accessible_tabs[i]
            tab_components == Filter(accessible_components,
                                     {c \in ComponentIds : MstComponent[c].tab_id = tab})
        IN  [tab_id |-> tab,
             display_order |-> MstTab[tab].display_order,
             components |->
                [k \in DOMAIN tab_components |->
                    [component_id |-> tab_components[k],
                     permissions |-> component_permission_map(access_entries,
                                                              tab_components[k])]]]]

\* Lines 270-316: locations with their nested compute boxes, checkpoints and
\* cameras, from the lists the queries returned.  Cameras and compute boxes
\* are kept as sets: nothing reads their order.
BuildLocations(accessible_locations, accessible_checkpoints) ==
    LET checkpoint_ids == {accessible_checkpoints[k] : k \in DOMAIN accessible_checkpoints}
        location_ids == {accessible_locations[k] : k \in DOMAIN accessible_locations}
        cameras == cameras_for_checkpoints(checkpoint_ids)
        boxes == compute_boxes_for_locations(location_ids)
    IN  [i \in DOMAIN accessible_locations |->
            LET loc == accessible_locations[i]
                loc_checkpoints == Filter(accessible_checkpoints,
                                          {cp \in CheckpointIds :
                                              MstCheckpoint[cp].location_id = loc})
            IN  [location_id |-> loc,
                 location_name |-> LocationName[loc],
                 compute_boxes |-> {b \in boxes : MstComputeBox[b].location_id = loc},
                 checkpoints |->
                    [k \in DOMAIN loc_checkpoints |->
                        [checkpoint_id |-> loc_checkpoints[k],
                         sequence_order |-> SequenceOrder[loc_checkpoints[k]],
                         cameras |-> {c \in cameras :
                                        MstCamera[c].checkpoint_id = loc_checkpoints[k]}]]]]

(***************************************************************************)
(* notification/crud.py: get_users_with_location_access                    *)
(***************************************************************************)
get_users_with_location_access(company_id, location_id) ==
    LET access_entries ==
            {g \in grants :
                /\ g.access_type = "location"
                /\ ActiveGrant(g)
                /\ MstUser[g.user_id].company_id = company_id
                /\ ~MstUser[g.user_id].disabled
                /\ ~MstUser[g.user_id].is_deleted}
    IN  {g.user_id : g \in {h \in access_entries :
                                \/ h.access_data = NullData
                                \/ location_id \in access_ids_of(h.access_data)}}

(***************************************************************************)
(* The constraints of trn_notification_tracker, checked at flush.          *)
(***************************************************************************)
\* uq_notification_user is not enforced.
uq_notification_user_Missing(rows) == TRUE

\* UniqueConstraint('notification_id', 'user_id', name='uq_notification_user')
uq_notification_user(rows) ==
    \A r \in BagToSet(rows) :
        /\ CopiesIn(r, rows) = 1
        /\ \A q \in BagToSet(rows) :
                (q.notification_id = r.notification_id /\ q.user_id = r.user_id) => q = r

\* ForeignKey(mst_notifications.notification_id), ForeignKey(mst_users.id)
TrackerForeignKeys(rows, notifs) ==
    \A r \in BagToSet(rows) :
        r.notification_id \in DOMAIN notifs /\ r.user_id \in UserIds

\* The flush of tracker rows succeeds iff no constraint is violated.
TrackerFlushOk(rows, notifs) == uq_notification_user(rows) /\ TrackerForeignKeys(rows, notifs)

(***************************************************************************)
(* notification/crud.py: create_notification, create_notification_tracker  *)
(***************************************************************************)
\* The row create_notification adds; its notification_id is its position.
create_notification(user_id, company_id, location_id, priority, expires_at) ==
    [user_id |-> user_id, company_id |-> company_id, location_id |-> location_id,
     priority |-> priority, expires_at |-> expires_at,
     disabled |-> FALSE, is_deleted |-> FALSE]

\* db.add(tracker); db.commit(): raises when the flush violates a constraint.
create_notification_tracker(rows, notifs, notification_id, user_id) ==
    LET tracker == [notification_id |-> notification_id, user_id |-> user_id,
                    is_read |-> FALSE, read_at |-> NoneVal]
        flushed == rows (+) SetToBag({tracker})
    IN  IF TrackerFlushOk(flushed, notifs)
        THEN [raised |-> FALSE, rows |-> flushed]
        ELSE [raised |-> TRUE, rows |-> rows]

(***************************************************************************)
(* notification/utils.py: send_watchlist_alert                             *)
(***************************************************************************)
\* timedelta(hours=24); the clock counts hours.
ExpiryHours == 24

\* The loop of lines 138-152 over the recipients: at each user a tracker is
\* created, or the failure is logged and the loop continues.  After the
\* first failure the session's transaction is inactive (nothing calls
\* db.rollback()), so the commit of every later user raises too and the
\* count stays as it is.
RECURSIVE CreateTrackers(_, _, _, _, _)
CreateTrackers(rows, notifs, notification_id, user_ids, notification_count) ==
    IF user_ids = {} THEN [rows |-> rows, notification_count |-> notification_count]
    ELSE LET user_id == CHOOSE u \in user_ids : \A v \in user_ids : u <= v
             made == create_notification_tracker(rows, notifs, notification_id, user_id)
         IN  IF made.raised
             THEN [rows |-> rows, notification_count |-> notification_count]
             ELSE CreateTrackers(made.rows, notifs, notification_id, user_ids \ {user_id},
                                 notification_count + 1)

\* send_watchlist_alert with the "if not user_ids: return 0" test dropped.
send_watchlist_alert_NoEmptyTest(company_id, location_id, is_blacklisted, is_whitelisted) ==
    LET user_ids == get_users_with_location_access(company_id, location_id)
        priority == IF is_blacklisted THEN "high" ELSE "medium"
        notifs == Append(notifications,
                         create_notification(NoneVal, company_id, location_id, priority,
                                             clock + ExpiryHours))
        made == CreateTrackers(trackers, notifs, Len(notifs), user_ids, 0)
    IN  IF ~is_blacklisted /\ ~is_whitelisted
        THEN [notifications |-> notifications, trackers |-> trackers, count |-> 0]
        ELSE [notifications |-> notifs, trackers |-> made.rows, count |-> made.notification_count]

send_watchlist_alert(company_id, location_id, is_blacklisted, is_whitelisted) ==
    LET user_ids == get_users_with_location_access(company_id, location_id)
        priority == IF is_blacklisted THEN "high" ELSE "medium"
        notifs == Append(notifications,
                         create_notification(NoneVal, company_id, location_id, priority,
                                             clock + ExpiryHours))
        made == CreateTrackers(trackers, notifs, Len(notifs), user_ids, 0)
    IN  IF user_ids = {} \/ (~is_blacklisted /\ ~is_whitelisted)
        THEN [notifications |-> notifications, trackers |-> trackers, count |-> 0]
        ELSE [notifications |-> notifs, trackers |-> made.rows, count |-> made.notification_count]

(***************************************************************************)
(* notification/crud.py: mark_notifications_as_read                        *)
(* The session has autoflush=False: a query sees the rows of the database  *)
(* (with the changes made to the objects it loaded), never a pending add.  *)
(***************************************************************************)
\* The loop body with the "if not tracker.is_read" test dropped.
MarkOne_AlwaysUpdates(st, notification_id, user_id, now) ==
    LET found == {r \in BagToSet(st.rows) :
                    r.notification_id = notification_id /\ r.user_id = user_id}
        tracker == CHOOSE r \in found : TRUE
    IN  IF found # {}
        THEN [st EXCEPT !.rows = (@ (-) SetToBag({tracker}))
                                    (+) SetToBag({[tracker EXCEPT !.is_read = TRUE,
                                                                  !.read_at = now]}),
                        !.count = @ + 1]
        ELSE [st EXCEPT !.added = @ (+) SetToBag({[notification_id |-> notification_id,
                                                   user_id |-> user_id,
                                                   is_read |-> TRUE, read_at |-> now]}),
                        !.count = @ + 1]

\* One iteration of the loop of lines 249-273.
MarkOne(st, notification_id, user_id, now) ==
    LET found == {r \in BagToSet(st.rows) :
                    r.notification_id = notification_id /\ r.user_id = user_id}
        tracker == CHOOSE r \in found : TRUE
    IN  IF found # {}
        THEN IF ~tracker.is_read
             THEN [st EXCEPT !.rows = (@ (-) SetToBag({tracker}))
                                        (+) SetToBag({[tracker EXCEPT !.is_read = TRUE,
                                                                      !.read_at = now]}),
                             !.count = @ + 1]
             ELSE st
        ELSE [st EXCEPT !.added = @ (+) SetToBag({[notification_id |-> notification_id,
                                                   user_id |-> user_id,
                                                   is_read |-> TRUE, read_at |-> now]}),
                        !.count = @ + 1]

RECURSIVE MarkLoop(_, _, _, _)
MarkLoop(st, notification_ids, user_id, now) ==
    IF notification_ids = <<>> THEN st
    ELSE MarkLoop(MarkOne(st, Head(notification_ids), user_id, now),
                  Tail(notification_ids), user_id, now)

\* db.commit() flushes the updates and the pending adds; an IntegrityError
\* propagates to the caller, whose rollback leaves the table as it was.
mark_notifications_as_read(notification_ids, user_id) ==
    LET st == MarkLoop([rows |-> trackers, added |-> EmptyBag, count |-> 0],
                       notification_ids, user_id, clock)
        flushed == st.rows (+) st.added
    IN  IF TrackerFlushOk(flushed, notifications)
        THEN [raised |-> FALSE, rows |-> flushed, count |-> st.count]
        ELSE [raised |-> TRUE, rows |-> trackers, count |-> 0]

(***************************************************************************)
(* notification/crud.py: the listing queries                               *)
(***************************************************************************)
\* disabled == False, is_deleted == False, expires_at IS NULL or > utcnow()
BaseFilter(n) ==
    /\ ~notifications[n].disabled
    /\ ~notifications[n].is_deleted
    /\ (notifications[n].expires_at = NoneVal \/ notifications[n].expires_at > clock)

\* The company filter "if company_id is not None".
CompanyFilter(n, company_id) ==
    company_id # NoneVal => notifications[n].company_id = company_id

\* The outer join with the user_id condition missing from the ON clause.
OuterJoin_AnyUser(n, user_id) ==
    LET mine == {r \in BagToSet(trackers) : r.notification_id = n}
    IN  IF mine = {}
        THEN {[notification_id |-> n, tracker |-> FALSE, is_read |-> FALSE, read_at |-> NoneVal]}
        ELSE {[notification_id |-> n, tracker |-> TRUE, is_read |-> r.is_read,
               read_at |-> r.read_at] : r \in mine}

\* The rows of the outer join of notification n with the trackers of the
\* user: one per tracker, or one with no tracker.
OuterJoin(n, user_id) ==
    LET mine == {r \in BagToSet(trackers) : r.notification_id = n /\ r.user_id = user_id}
    IN  IF mine = {}
        THEN {[notification_id |-> n, tracker |-> FALSE, is_read |-> FALSE, read_at |-> NoneVal]}
        ELSE {[notification_id |-> n, tracker |-> TRUE, is_read |-> r.is_read,
               read_at |-> r.read_at] : r \in mine}

\* The read-status filter: is_read is "all" (None), "read" (True), "unread" (False).
ReadFilter(row, is_read) ==
    CASE is_read = "read" -> row.tracker /\ row.is_read
      [] is_read = "unread" -> ~row.tracker \/ ~row.is_read
      [] OTHER -> TRUE

get_user_notifications(user_id, company_id, is_read) ==
    LET matching == {n \in DOMAIN notifications :
                        /\ BaseFilter(n)
                        /\ notifications[n].user_id \in {user_id, NoneVal}
                        /\ CompanyFilter(n, company_id)}
    IN  {row \in UNION {OuterJoin(n, user_id) : n \in matching} : ReadFilter(row, is_read)}

get_unread_count(user_id, company_id) ==
    Cardinality(get_user_notifications(user_id, company_id, "unread"))

get_user_notifications_with_access(user_id, company_id, accessible_location_ids, has_all_locations_access, is_read) ==
    LET matching == {n \in DOMAIN notifications :
                        /\ BaseFilter(n)
                        /\ CompanyFilter(n, company_id)
                        /\ IF has_all_locations_access
                           THEN notifications[n].user_id \in {user_id, NoneVal}
                           ELSE IF accessible_location_ids # {}
                           THEN \/ notifications[n].user_id = user_id
                                \/ /\ notifications[n].user_id = NoneVal
                                   /\ notifications[n].location_id \in accessible_location_ids
                           ELSE notifications[n].user_id = user_id}
    IN  {row \in UNION {OuterJoin(n, user_id) : n \in matching} : ReadFilter(row, is_read)}

(***************************************************************************)
(* The initial database: the catalog is seeded, no grant and no            *)
(* notification exists.                                                    *)
(***************************************************************************)
NoResp == [op |-> "none"]

Init ==
    /\ grants = {}
    /\ locations = MstLocation
    /\ notifications = <<>>
    /\ trackers = EmptyBag
    /\ clock = 1
    /\ inflight = {}
    /\ vehicles = <<>>
    /\ vehicle_logs = <<>>
    /\ watchlist = <<>>
    /\ resp = NoResp

(***************************************************************************)
(* Administration of grants and of the catalog.                            *)
(***************************************************************************)
\* seed_database.py: create_access_controls inserts one row per
\* (user, access_type); uq_user_access_type rejects a second one.
AssignAccess(u, t, d) ==
    /\ Cardinality(grants) < MaxGrants
    /\ \A g \in grants : ~(g.user_id = u /\ g.access_type = t)
    /\ grants' = grants \cup {[user_id |-> u, access_type |-> t, access_data |-> d,
                                can_view |-> TRUE, can_create |-> FALSE,
                                can_update |-> FALSE, can_delete |-> FALSE,
                                disabled |-> FALSE, is_deleted |-> FALSE]}
    /\ resp' = NoResp
    /\ UNCHANGED <<vehicles, vehicle_logs, watchlist, locations, notifications, trackers, clock, inflight>>

\* An administrator disables a grant.
DisableAccess(g) ==
    /\ g \in grants
    /\ ActiveGrant(g)
    /\ grants' = (grants \ {g}) \cup {[g EXCEPT !.disabled = TRUE]}
    /\ resp' = NoResp
    /\ UNCHANGED <<vehicles, vehicle_logs, watchlist, locations, notifications, trackers, clock, inflight>>

\* An administrator soft-deletes a grant.
SoftDeleteAccess(g) ==
    /\ g \in grants
    /\ ActiveGrant(g)
    /\ grants' = (grants \ {g}) \cup {[g EXCEPT !.is_deleted = TRUE]}
    /\ resp' = NoResp
    /\ UNCHANGED <<vehicles, vehicle_logs, watchlist, locations, notifications, trackers, clock, inflight>>

\* An administrator disables a location.
DisableLocation(l) ==
    /\ ~locations[l].disabled
    /\ locations' = [locations EXCEPT ![l].disabled = TRUE]
    /\ resp' = NoResp
    /\ UNCHANGED <<vehicles, vehicle_logs, watchlist, grants, notifications, trackers, clock, inflight>>

(***************************************************************************)
(* The read paths.  current_user is an authenticated (not disabled) user.  *)
(***************************************************************************)
Authenticated(u) == u \in UserIds /\ ~MstUser[u].disabled

\* configuration: the assigned locations of a user.
AssignedLocations(u) ==
    /\ Authenticated(u)
    /\ resp' = [op |-> "assigned_locations", user |-> u,
                location_ids |-> IdList(get_user_assigned_locations(
                                            u, MstUser[u].company_id, MstUser[u].role))]
    /\ UNCHANGED <<vehicles, vehicle_logs, watchlist, grants, locations, notifications, trackers, clock, inflight>>

\* watchlist/routes.py: the scope of get_watchlist.
WatchlistScope(u) ==
    /\ Authenticated(u)
    /\ AccessEntries(u) # {}
    /\ LET access_info == extract_accessible_locations_checkpoints(
                              AccessEntries(u), TRUE, MstUser[u].company_id, MstUser[u].role)
       IN  resp' = [op |-> "watchlist_scope", user |-> u,
                    location_ids |-> access_info.location_ids,
                    checkpoint_ids |-> access_info.checkpoint_ids]
    /\ UNCHANGED <<vehicles, vehicle_logs, watchlist, grants, locations, notifications, trackers, clock, inflight>>

\* watchlist/routes.py: no access control entries found.
WatchlistNoAccess(u) ==
    /\ Authenticated(u)
    /\ AccessEntries(u) = {}
    /\ resp' = [op |-> "watchlist_scope", user |-> u, location_ids |-> IdList({}), checkpoint_ids |-> IdList({})]
    /\ UNCHANGED <<vehicles, vehicle_logs, watchlist, grants, locations, notifications, trackers, clock, inflight>>

\* GET /me/access-control
AccessControlView(u) ==
    /\ Authenticated(u)
    /\ \E raised \in ViewRaises(AccessEntries(u)) :
            resp' = [op |-> "access_control", user |-> u,
                     status |-> IF raised THEN 500 ELSE 200,
                     locations |-> IF raised THEN {}
                                   ELSE get_user_access_control(u).locations]
    /\ UNCHANGED <<vehicles, vehicle_logs, watchlist, grants, locations, notifications, trackers, clock, inflight>>

\* GET /me/access-control, with the lists of the response in the order the
\* queries returned their rows.
ComposedView(u) ==
    /\ Authenticated(u)
    /\ LET access_entries == AccessEntries(u)
       IN  \E accessible_tabs \in OrderBy(AccessibleTabs(access_entries),
                                          [t \in TabIds |-> MstTab[t].display_order]),
              accessible_components \in AnyOrder(AccessibleComponents(access_entries)),
              accessible_locations \in AnyOrder(AccessibleLocations(access_entries)),
              accessible_checkpoints \in AnyOrder(AccessibleCheckpoints(access_entries)),
              raised \in ViewRaises(access_entries) :
                resp' = [op |-> "composed_view", user |-> u,
                         status |-> IF raised THEN 500 ELSE 200,
                         tabs |-> IF raised THEN <<>>
                                  ELSE BuildTabs(access_entries, accessible_tabs,
                                                 accessible_components),
                         locations |-> IF raised THEN <<>>
                                       ELSE BuildLocations(accessible_locations,
                                                           accessible_checkpoints)]
    /\ UNCHANGED <<vehicles, vehicle_logs, watchlist, grants, locations, notifications, trackers, clock, inflight>>

(***************************************************************************)
(* configuration/routes.py: POST /assigned-resources                       *)
(***************************************************************************)
\* The scopes of GetAssignedResourcesRequest.
ScopeEnum == {"camera", "checkpoints"}

\* The parameters of configuration/crud.py get_user_assigned_locations; none
\* of them has a default value.
get_user_assigned_locations_params == <<"db", "user_id", "company_id", "role">>

\* A call of crud.get_user_assigned_locations with positional arguments args:
\* Python raises TypeError before the body runs unless every parameter
\* receives an argument; otherwise the body runs on the arguments.
call_get_user_assigned_locations(args) ==
    IF Len(args) = Len(get_user_assigned_locations_params)
    THEN [raised |-> FALSE, value |-> get_user_assigned_locations(args[2], args[3], args[4])]
    ELSE [raised |-> TRUE, value |-> {}]

\* location_id of a camera row.
CameraLocation(c) == MstCheckpoint[MstCamera[c].checkpoint_id].location_id

\* configuration/crud.py: the checkpoints of the locations, deleted ones left out.
get_checkpoints_by_locations(location_ids) ==
    {c \in CheckpointIds : MstCheckpoint[c].location_id \in location_ids
                           /\ ~MstCheckpoint[c].is_deleted}

\* configuration/crud.py: the cameras of the locations, deleted ones left out.
get_cameras_by_locations(location_ids) ==
    {c \in CameraIds : CameraLocation(c) \in location_ids /\ ~MstCamera[c].is_deleted}

\* The response of get_assigned_resources for user_id and scope: the route
\* passes the session and the user id only, and every exception of the body
\* becomes status 500.
get_assigned_resources(user_id, scope) ==
    LET call == call_get_user_assigned_locations(<<"db", user_id>>)
        location_ids == call.value
        result == IF scope = "checkpoints" THEN get_checkpoints_by_locations(location_ids)
                  ELSE get_cameras_by_locations(location_ids)
    IN  IF call.raised
        THEN [status |-> 500, total_locations |-> 0, total_count |-> 0, data |-> IdList({})]
        ELSE IF location_ids = {}
        THEN [status |-> 200, total_locations |-> 0, total_count |-> 0, data |-> IdList({})]
        ELSE [status |-> 200, total_locations |-> Cardinality(location_ids),
              total_count |-> Cardinality(result), data |-> IdList(result)]

GetAssignedResources(u, scope) ==
    /\ Authenticated(u)
    /\ LET r == get_assigned_resources(u, scope)
       IN  resp' = [op |-> "assigned_resources", user |-> u, scope |-> scope,
                    status |-> r.status, total_locations |-> r.total_locations,
                    total_count |-> r.total_count, data |-> r.data]
    /\ UNCHANGED <<vehicles, vehicle_logs, watchlist, grants, locations, notifications, trackers, clock, inflight>>

Next ==
    \/ \E u \in UserIds, t \in AccessTypes : \E d \in AccessData(t) : AssignAccess(u, t, d)
    \/ \E g \in grants : DisableAccess(g)
    \/ \E g \in grants : SoftDeleteAccess(g)
    \/ \E l \in LocationIds : DisableLocation(l)
    \/ \E u \in UserIds : AssignedLocations(u)
    \/ \E u \in UserIds : WatchlistScope(u)
    \/ \E u \in UserIds : WatchlistNoAccess(u)
    \/ \E u \in UserIds : AccessControlView(u)

Spec == Init /\ [][Next]_vars

(***************************************************************************)
(* The notification requests.                                              *)
(***************************************************************************)
\* The (is_blacklisted, is_whitelisted) pairs vehicle_detection calls
\* send_watchlist_alert with (edge/routes.py:286).
AlertFlags == {<<TRUE, FALSE>>, <<FALSE, TRUE>>, <<TRUE, TRUE>>}

\* edge/routes.py:298-329: the detection pipeline raises an alert for a
\* location, with the company of that location.
SendWatchlistAlert(l, flags) ==
    /\ Len(notifications) < MaxNotifications
    /\ l \in LocationIds
    /\ LET sent == send_watchlist_alert(locations[l].company_id, l, flags[1], flags[2])
       IN  /\ notifications' = sent.notifications
           /\ trackers' = sent.trackers
           /\ resp' = [op |-> "send_watchlist_alert", company_id |-> locations[l].company_id,
                       location_id |-> l, count |-> sent.count,
                       notification_id |-> IF Len(sent.notifications) > Len(notifications)
                                           THEN Len(sent.notifications) ELSE NoneVal]
    /\ UNCHANGED <<vehicles, vehicle_logs, watchlist, grants, locations, clock, inflight>>

\* The bodies of POST /notifications/: a broadcast for location 2 that
\* expires at instant 2, and a notification targeted at user 2.
CreateRequests ==
    {[user_id |-> NoneVal, company_id |-> NoneVal, location_id |-> 2, expires_at |-> 2],
     [user_id |-> 2, company_id |-> NoneVal, location_id |-> NoneVal, expires_at |-> NoneVal]}

\* notification/routes.py: create_notification
CreateNotification(u, request) ==
    /\ Authenticated(u)
    /\ Len(notifications) < MaxNotifications
    /\ LET company_id == IF request.company_id # NoneVal THEN request.company_id
                         ELSE MstUser[u].company_id
           notifs == Append(notifications,
                            create_notification(request.user_id, company_id,
                                                request.location_id, "medium",
                                                request.expires_at))
           made == IF request.user_id # NoneVal
                   THEN create_notification_tracker(trackers, notifs, Len(notifs), request.user_id)
                   ELSE [raised |-> FALSE, rows |-> trackers]
       IN  /\ notifications' = notifs
           /\ trackers' = made.rows
           /\ resp' = [op |-> "create_notification", user |-> u,
                       status |-> IF made.raised THEN 500 ELSE 200,
                       notification_id |-> Len(notifs)]
    /\ UNCHANGED <<vehicles, vehicle_logs, watchlist, grants, locations, clock, inflight>>

\* The notification_ids of a mark-as-read body: one or two ids, which may
\* repeat.
MarkRequests ==
    {<<n>> : n \in 1..MaxNotifications}
        \cup {<<n, m>> : n \in 1..MaxNotifications, m \in 1..MaxNotifications}

\* mark_as_read that also disables the notifications it marks.
MarkAsRead_DisablesNotification(u, notification_ids) ==
    /\ Authenticated(u)
    /\ clock < MaxTime
    /\ LET marked == mark_notifications_as_read(notification_ids, u)
       IN  /\ trackers' = marked.rows
           /\ resp' = [op |-> "mark_as_read", user |-> u, notification_ids |-> notification_ids,
                       status |-> IF marked.raised THEN 500 ELSE 200,
                       marked_count |-> marked.count]
    /\ notifications' = [i \in DOMAIN notifications |->
                            IF i \in {notification_ids[k] : k \in DOMAIN notification_ids}
                            THEN [notifications[i] EXCEPT !.disabled = TRUE]
                            ELSE notifications[i]]
    /\ clock' = clock + 1
    /\ UNCHANGED <<vehicles, vehicle_logs, watchlist, grants, locations, inflight>>

\* notification/routes.py: mark_as_read.  Time passes between two requests.
MarkAsRead(u, notification_ids) ==
    /\ Authenticated(u)
    /\ clock < MaxTime
    /\ LET marked == mark_notifications_as_read(notification_ids, u)
       IN  /\ trackers' = marked.rows
           /\ resp' = [op |-> "mark_as_read", user |-> u, notification_ids |-> notification_ids,
                       status |-> IF marked.raised THEN 500 ELSE 200,
                       marked_count |-> marked.count]
    /\ clock' = clock + 1
    /\ UNCHANGED <<vehicles, vehicle_logs, watchlist, grants, locations, notifications, inflight>>

\* The session of a mark_notifications_as_read call whose loop (lines
\* 249-273) has run and whose db.commit() (line 275) has not: the loaded
\* rows it changed, the rows it added, and the count it will return.
MarkSession(notification_ids, user_id) ==
    LET st == MarkLoop([rows |-> trackers, added |-> EmptyBag, count |-> 0],
                       notification_ids, user_id, clock)
    IN  [kind |-> "mark", user |-> user_id, notification_ids |-> notification_ids,
         dirty |-> BagToSet(st.rows) \ BagToSet(trackers),
         added |-> st.added, count |-> st.count, user_ids |-> {}, failed |-> FALSE]

\* db.commit() of a session: the flush updates each changed row by its
\* primary key and inserts the added rows into the table as it is now.
CommitSession(s) ==
    LET stale == {r \in BagToSet(trackers) :
                    \E d \in s.dirty : d.notification_id = r.notification_id
                                        /\ d.user_id = r.user_id}
        flushed == ((trackers (-) SetToBag(stale)) (+) SetToBag(s.dirty)) (+) s.added
    IN  IF TrackerFlushOk(flushed, notifications)
        THEN [raised |-> FALSE, rows |-> flushed, count |-> s.count]
        ELSE [raised |-> TRUE, rows |-> trackers, count |-> 0]

\* A mark-as-read request runs its loop and is preempted before the commit.
MarkBegin(u, notification_ids) ==
    /\ Authenticated(u)
    /\ clock < MaxTime
    /\ Cardinality(inflight) < MaxInflight
    /\ inflight' = inflight \cup {MarkSession(notification_ids, u)}
    /\ clock' = clock + 1
    /\ resp' = NoResp
    /\ UNCHANGED <<vehicles, vehicle_logs, watchlist, grants, locations, notifications, trackers>>

\* ... and commits after other requests have run.
MarkCommit(s) ==
    /\ s \in inflight
    /\ s.kind = "mark"
    /\ LET marked == CommitSession(s)
       IN  /\ trackers' = marked.rows
           /\ resp' = [op |-> "mark_as_read", user |-> s.user,
                       notification_ids |-> s.notification_ids,
                       status |-> IF marked.raised THEN 500 ELSE 200,
                       marked_count |-> marked.count]
    /\ inflight' = inflight \ {s}
    /\ UNCHANGED <<vehicles, vehicle_logs, watchlist, grants, locations, notifications, clock>>

\* The session of a send_watchlist_alert call that has committed its
\* notification (utils.py:122-133) and still has trackers to create for
\* user_ids (utils.py:137-152).  failed: a commit of this session has
\* raised and nothing has called db.rollback() since.
AlertSession(notification_id, user_ids) ==
    [kind |-> "alert", user |-> NoneVal, notification_ids |-> <<notification_id>>,
     dirty |-> {}, added |-> EmptyBag, count |-> 0, user_ids |-> user_ids, failed |-> FALSE]

\* An alert commits its notification and is preempted before the first
\* tracker.
AlertBegin(l, flags) ==
    /\ Len(notifications) < MaxNotifications
    /\ Cardinality(inflight) < MaxInflight
    /\ l \in LocationIds
    /\ LET company_id == locations[l].company_id
           user_ids == get_users_with_location_access(company_id, l)
           priority == IF flags[1] THEN "high" ELSE "medium"
       IN  /\ user_ids # {}
           /\ notifications' = Append(notifications,
                                      create_notification(NoneVal, company_id, l, priority,
                                                          clock + ExpiryHours))
           /\ inflight' = inflight \cup {AlertSession(Len(notifications) + 1, user_ids)}
    /\ resp' = NoResp
    /\ UNCHANGED <<vehicles, vehicle_logs, watchlist, grants, locations, trackers, clock>>

\* ... and creates the tracker of one more user, each with its own commit;
\* a tracker that fails is logged and skipped.  The handler does not call
\* db.rollback(): after a commit whose flush failed the session's
\* transaction is inactive and every later db.commit() of the loop raises
\* as well.  The users are taken in the order of list(set(user_ids)), as
\* in CreateTrackers.  The call returns after the last user.
AlertTracker(s, user_id) ==
    /\ s \in inflight
    /\ s.kind = "alert"
    /\ user_id \in s.user_ids
    /\ \A v \in s.user_ids : user_id <= v
    /\ LET notification_id == s.notification_ids[1]
           made == IF s.failed THEN [raised |-> TRUE, rows |-> trackers]
                   ELSE create_notification_tracker(trackers, notifications,
                                                    notification_id, user_id)
           notification_count == IF made.raised THEN s.count ELSE s.count + 1
           rest == s.user_ids \ {user_id}
       IN  /\ trackers' = made.rows
           /\ IF rest = {}
              THEN /\ inflight' = inflight \ {s}
                   /\ resp' = [op |-> "send_watchlist_alert",
                               company_id |-> notifications[notification_id].company_id,
                               location_id |-> notifications[notification_id].location_id,
                               count |-> notification_count,
                               notification_id |-> notification_id]
              ELSE /\ inflight' = (inflight \ {s})
                                    \cup {[s EXCEPT !.user_ids = rest,
                                                    !.count = notification_count,
                                                    !.failed = made.raised]}
                   /\ resp' = NoResp
    /\ UNCHANGED <<vehicles, vehicle_logs, watchlist, grants, locations, notifications, clock>>

\* The is_read filter of a listing: None, True or False.
ReadFilters == {"all", "read", "unread"}

\* notification/routes.py: get_notifications (POST /notifications/list)
GetNotifications(u, is_read) ==
    /\ Authenticated(u)
    /\ resp' = [op |-> "list", user |-> u,
                notifications |-> get_user_notifications(u, MstUser[u].company_id, is_read)]
    /\ UNCHANGED <<vehicles, vehicle_logs, watchlist, grants, locations, notifications, trackers, clock, inflight>>

\* notification/routes.py: get_unread_count
GetUnreadCount(u) ==
    /\ Authenticated(u)
    /\ resp' = [op |-> "unread_count", user |-> u,
                unread_count |-> get_unread_count(u, MstUser[u].company_id)]
    /\ UNCHANGED <<vehicles, vehicle_logs, watchlist, grants, locations, notifications, trackers, clock, inflight>>

\* notification/routes.py: get_my_notifications
GetMyNotifications(u, is_read) ==
    /\ Authenticated(u)
    /\ LET access_entries == EntriesOfType(AccessEntries(u), "location")
           has_all_locations_access == \E g \in access_entries : g.access_data = NullData
           accessible_location_ids ==
                IF has_all_locations_access THEN {}
                ELSE UNION {access_ids_of(g.access_data) : g \in access_entries}
       IN  resp' = [op |-> "my_notifications", user |-> u,
                    notifications |-> get_user_notifications_with_access(
                                        u, MstUser[u].company_id, accessible_location_ids,
                                        has_all_locations_access, is_read)]
    /\ UNCHANGED <<vehicles, vehicle_logs, watchlist, grants, locations, notifications, trackers, clock, inflight>>

(***************************************************************************)
(* The fan-out over every grant table: location grants are assigned and    *)
(* disabled, and the detection pipeline raises alerts.                     *)
(***************************************************************************)
NextFanout ==
    \/ \E u \in UserIds : \E d \in AccessData("location") : AssignAccess(u, "location", d)
    \/ \E g \in grants : DisableAccess(g)
    \/ \E l \in LocationIds : DisableLocation(l)
    \/ \E l \in LocationIds, flags \in AlertFlags : SendWatchlistAlert(l, flags)

SpecFanout == Init /\ [][NextFanout]_vars

(***************************************************************************)
(* The notification life cycle over the seeded grants: users 1 and 3 hold  *)
(* a wildcard location grant, users 2 and 4 the explicit set {1, 3, 9}.    *)
(***************************************************************************)
SeedGrants ==
    {[user_id |-> u, access_type |-> "location",
      access_data |-> IF u \in {1, 3} THEN NullData ELSE JsonIds({1, 3, 9}),
      can_view |-> TRUE, can_create |-> FALSE, can_update |-> FALSE, can_delete |-> FALSE,
      disabled |-> FALSE, is_deleted |-> FALSE] : u \in UserIds}

InitRead ==
    /\ grants = SeedGrants
    /\ locations = MstLocation
    /\ notifications = <<>>
    /\ trackers = EmptyBag
    /\ clock = 1
    /\ inflight = {}
    /\ vehicles = <<>>
    /\ vehicle_logs = <<>>
    /\ watchlist = <<>>
    /\ resp = NoResp

\* Notifications are created and marked as read.
NextRead ==
    \/ \E l \in LocationIds, flags \in AlertFlags : SendWatchlistAlert(l, flags)
    \/ \E u \in UserIds, request \in CreateRequests : CreateNotification(u, request)
    \/ \E u \in UserIds, ids \in MarkRequests : MarkAsRead(u, ids)

SpecRead == InitRead /\ [][NextRead]_vars

\* ... and listed.
NextList ==
    \/ NextRead
    \/ \E u \in UserIds, is_read \in ReadFilters : GetNotifications(u, is_read)
    \/ \E u \in UserIds : GetUnreadCount(u)
    \/ \E u \in UserIds, is_read \in ReadFilters : GetMyNotifications(u, is_read)

SpecList == InitRead /\ [][NextList]_vars

\* Requests overlap: a mark-as-read request may commit after requests that
\* started later, and other requests run between the commits of an alert.
\* The overlapping requests are those of users 1 (a wildcard grant) and 2
\* (an explicit grant) on the notifications of company 1.
RaceUsers == {1, 2}

RaceLocations == {1, 2}

NextRace ==
    \/ \E request \in CreateRequests : CreateNotification(1, request)
    \/ \E u \in RaceUsers, n \in 1..MaxNotifications : MarkAsRead(u, <<n>>)
    \/ \E u \in RaceUsers, n \in 1..MaxNotifications : MarkBegin(u, <<n>>)
    \/ \E s \in inflight : MarkCommit(s)
    \/ \E l \in RaceLocations : AlertBegin(l, <<TRUE, FALSE>>)
    \/ \E s \in inflight, u \in UserIds : AlertTracker(s, u)

SpecRace == InitRead /\ [][NextRace]_vars

(***************************************************************************)
(* Properties of the resolvers.  The expected sets are written over the    *)
(* tables, not over the resolvers' helpers.                                *)
(***************************************************************************)
\* The grants of user u for class t that are neither disabled nor deleted.
LiveGrants(u, t) ==
    {g \in grants : g.user_id = u /\ g.access_type = t /\ ~g.disabled /\ ~g.is_deleted}

\* The locations that are neither disabled nor deleted.
LiveLocations == {l \in DOMAIN locations : ~locations[l].disabled /\ ~locations[l].is_deleted}

\* The live locations of company c.
LiveLocationsOf(c) == {l \in LiveLocations : locations[l].company_id = c}

\* The last response is a resolved location set (configuration or watchlist).
IsResolution == resp.op \in {"assigned_locations", "watchlist_scope"}

\* C1: for a non-creator user with a wildcard among the active location
\* grants, get_user_assigned_locations and
\* extract_accessible_locations_checkpoints(db, company_id, role) return
\* exactly the live locations of the user's company.
C1_WildcardIsCompanyLocations ==
    (/\ IsResolution
     /\ MstUser[resp.user].role # "creator"
     /\ \E g \in LiveGrants(resp.user, "location") : g.access_data.kind = "null")
        => resp.location_ids = [is_none |-> FALSE,
                                ids |-> LiveLocationsOf(MstUser[resp.user].company_id)]

\* A wildcard user of company 1 resolves after location 1 was disabled:
\* exactly location 2 is returned.
C1_Witness ==
    /\ IsResolution
    /\ MstUser[resp.user].role # "creator"
    /\ \E g \in LiveGrants(resp.user, "location") : g.access_data.kind = "null"
    /\ locations[1].disabled
    /\ resp.location_ids.ids = {2}

\* The union of the explicit ids of the active location grants of u.
ExplicitIds(u) == UNION {g.access_data.access_ids : g \in LiveGrants(u, "location")}

\* C2: with explicit grants only, resolution returns ids /\ live /\ company
\* for a non-creator and ids /\ live for a creator.
C2_ExplicitIsIntersection ==
    (/\ IsResolution
     /\ LiveGrants(resp.user, "location") # {}
     /\ \A g \in LiveGrants(resp.user, "location") : g.access_data.kind = "object")
        => resp.location_ids =
            [is_none |-> FALSE,
             ids |-> IF MstUser[resp.user].role = "creator"
                     THEN ExplicitIds(resp.user) \cap LiveLocations
                     ELSE ExplicitIds(resp.user) \cap LiveLocationsOf(MstUser[resp.user].company_id)]

\* The checkpoints of the locations of company c.
CheckpointsOfCompany(c) ==
    {cp \in DOMAIN MstCheckpoint : locations[MstCheckpoint[cp].location_id].company_id = c}

\* C3: company isolation: no resolved set and no access-control view of a
\* non-creator user holds a location or a checkpoint of another company.
C3_CompanyIsolation ==
    (resp.op # "none" /\ MstUser[resp.user].role # "creator") =>
        LET own == MstUser[resp.user].company_id
        IN  /\ IsResolution => resp.location_ids.ids \subseteq LiveLocationsOf(own)
            /\ resp.op = "watchlist_scope" =>
                    resp.checkpoint_ids.ids \subseteq CheckpointsOfCompany(own)
            /\ resp.op = "access_control" =>
                    \A loc \in resp.locations :
                        /\ loc.location_id \in LiveLocationsOf(own)
                        /\ loc.checkpoints \subseteq CheckpointsOfCompany(own)

\* C4: a user with no active grant row for a class resolves to nothing of
\* that class, in the resolved sets and in the composed view.
C4_NoActiveGrantNoAccess ==
    resp.op # "none" =>
        /\ LiveGrants(resp.user, "location") = {} =>
                /\ IsResolution => resp.location_ids = [is_none |-> FALSE, ids |-> {}]
                /\ resp.op = "access_control" => resp.locations = {}
        /\ LiveGrants(resp.user, "checkpoint") = {} =>
                /\ resp.op = "watchlist_scope" =>
                        resp.checkpoint_ids = [is_none |-> FALSE, ids |-> {}]
                /\ resp.op = "access_control" =>
                        \A loc \in resp.locations : loc.checkpoints = {}

\* The only location grant of a user, a wildcard, was disabled; the view of
\* the user, who still holds a checkpoint grant, lists no location.
C4_Witness ==
    /\ resp.op = "access_control"
    /\ \E g \in grants : /\ g.user_id = resp.user
                         /\ g.access_type = "location"
                         /\ g.access_data.kind = "null"
                         /\ g.disabled
    /\ LiveGrants(resp.user, "checkpoint") # {}
    /\ resp.locations = {}

(***************************************************************************)
(* Properties of the fan-out.                                              *)
(***************************************************************************)
\* The location set the Scope Expander resolves for user u: live locations
\* only, bounded by the user's company unless the user is a creator.
ResolvedLocations(u) ==
    LET scope == IF MstUser[u].role = "creator" THEN LiveLocations
                 ELSE LiveLocationsOf(MstUser[u].company_id)
    IN  IF \E g \in LiveGrants(u, "location") : g.access_data.kind = "null"
        THEN scope
        ELSE ExplicitIds(u) \cap scope

\* The users that have a tracker row of notification n.
TrackedUsers(n) == {r.user_id : r \in {q \in BagToSet(trackers) : q.notification_id = n}}

\* C5: the count send_watchlist_alert returns, and the set of users that
\* receive a tracker, is the set of active non-creator users of the event's
\* company whose resolved location set contains the event's location.
C5_RecipientsAreResolvedUsers ==
    resp.op = "send_watchlist_alert" =>
        LET expected == {u \in UserIds :
                            /\ ~MstUser[u].disabled /\ ~MstUser[u].is_deleted
                            /\ MstUser[u].role # "creator"
                            /\ MstUser[u].company_id = resp.company_id
                            /\ resp.location_id \in ResolvedLocations(u)}
        IN  /\ resp.count = Cardinality(expected)
            /\ resp.notification_id # NoneVal => TrackedUsers(resp.notification_id) = expected

\* C6: no tracker of a broadcast notification for a location belongs to a
\* creator.
C6_NoTrackerForCreator ==
    \A r \in BagToSet(trackers) :
        (/\ notifications[r.notification_id].user_id = NoneVal
         /\ notifications[r.notification_id].location_id # NoneVal)
            => MstUser[r.user_id].role # "creator"

\* The users get_users_with_location_access selects for (company c,
\* location l): the active users of c holding an active location grant that
\* is a wildcard or names l.
Recipients(c, l) ==
    {u \in UserIds :
        /\ ~MstUser[u].disabled /\ ~MstUser[u].is_deleted
        /\ MstUser[u].company_id = c
        /\ \E g \in LiveGrants(u, "location") :
                g.access_data.kind = "null" \/ l \in g.access_data.access_ids}

\* C7: a call of send_watchlist_alert with a non-empty recipient set appends
\* exactly one notification row, a broadcast (user_id NULL) with the event's
\* company and location and expires_at 24 hours ahead; with an empty
\* recipient set it creates no row and returns 0.
C7_OneBroadcastPerAlert ==
    [][resp'.op = "send_watchlist_alert" =>
        IF Recipients(resp'.company_id, resp'.location_id) = {}
        THEN /\ notifications' = notifications
             /\ trackers' = trackers
             /\ resp'.count = 0
        ELSE /\ Len(notifications') = Len(notifications) + 1
             /\ SubSeq(notifications', 1, Len(notifications)) = notifications
             /\ notifications'[Len(notifications')].user_id = NoneVal
             /\ notifications'[Len(notifications')].company_id = resp'.company_id
             /\ notifications'[Len(notifications')].location_id = resp'.location_id
             /\ notifications'[Len(notifications')].expires_at = clock + 24
             /\ resp'.count > 0
      ]_vars

\* An alert with two recipients created one broadcast row.
C7_Witness ==
    /\ resp.op = "send_watchlist_alert"
    /\ resp.count = 2
    /\ Len(notifications) = 1
    /\ notifications[1].user_id = NoneVal
    /\ notifications[1].location_id = resp.location_id

(***************************************************************************)
(* Properties of the listings and of the read state.                       *)
(***************************************************************************)
\* The notifications user u may see: those targeted at u, broadcasts with
\* no location, and broadcasts for a location u resolves.
MaySee(u) ==
    {n \in DOMAIN notifications :
        \/ notifications[n].user_id = u
        \/ /\ notifications[n].user_id = NoneVal
           /\ \/ notifications[n].location_id = NoneVal
              \/ notifications[n].location_id \in ResolvedLocations(u)}

\* C8: a broadcast notification for a location is listed for, and counted
\* as unread for, a user only if the user resolves that location.
C8_VisibleOnlyWithAccess ==
    /\ resp.op \in {"list", "my_notifications"} =>
            \A row \in resp.notifications : row.notification_id \in MaySee(resp.user)
    /\ resp.op = "unread_count" => resp.unread_count <= Cardinality(MaySee(resp.user))

\* The number of tracker rows of the pair (n, u).
TrackerCount(n, u) ==
    LET mine == {r \in BagToSet(trackers) : r.notification_id = n /\ r.user_id = u}
        RECURSIVE Sum(_)
        Sum(S) == IF S = {} THEN 0
                  ELSE LET r == CHOOSE x \in S : TRUE
                       IN  CopiesIn(r, trackers) + Sum(S \ {r})
    IN  Sum(mine)

\* C9: at most one tracker row per (notification_id, user_id).
C9_OneTrackerPerPair ==
    \A n \in 1..MaxNotifications, u \in UserIds : TrackerCount(n, u) <= 1

\* An alert returned having created one tracker fewer than it has
\* recipients: a recipient marked the notification as read between the
\* alert's commits, and the alert's insert for that pair was rejected.
C9_Witness ==
    /\ resp.op = "send_watchlist_alert"
    /\ resp.count = 1
    /\ Cardinality(TrackedUsers(resp.notification_id)) = 2
    /\ \E r \in BagToSet(trackers) : r.notification_id = resp.notification_id /\ r.is_read
    /\ \A u \in TrackedUsers(resp.notification_id) : TrackerCount(resp.notification_id, u) = 1

\* The elements of a sequence.
Range(s) == {s[i] : i \in DOMAIN s}

\* The tracker rows of the pair (n, u) in a table.
RowsOf(rows, n, u) == {r \in BagToSet(rows) : r.notification_id = n /\ r.user_id = u}

\* C10: when a mark-as-read call of a user directly follows a successful one
\* of the same user, every pair named by both keeps its single tracker row,
\* read and with the read_at of the first call; a second call naming no
\* other notification changes nothing and reports 0.
C10_SecondMarkIsNoOp ==
    [][(/\ resp.op = "mark_as_read" /\ resp.status = 200
        /\ resp'.op = "mark_as_read" /\ resp'.status = 200
        /\ resp'.user = resp.user)
       => /\ \A n \in Range(resp.notification_ids) \cap Range(resp'.notification_ids) :
                /\ RowsOf(trackers', n, resp.user) = RowsOf(trackers, n, resp.user)
                /\ Cardinality(RowsOf(trackers', n, resp.user)) = 1
                /\ \A r \in RowsOf(trackers', n, resp.user) :
                        /\ CopiesIn(r, trackers') = 1
                        /\ r.is_read
                        /\ r.read_at # NoneVal
                        /\ r.read_at < clock'
          /\ Range(resp'.notification_ids) \subseteq Range(resp.notification_ids) =>
                /\ trackers' = trackers
                /\ resp'.marked_count = 0
      ]_vars

\* Two calls were made, both by the same user for notification 1: the
\* tracker still carries the instant of the first call and the second call
\* reported 0.
C10_Witness ==
    /\ clock = 3
    /\ resp.op = "mark_as_read"
    /\ resp.status = 200
    /\ resp.marked_count = 0
    /\ 1 \in Range(resp.notification_ids)
    /\ \E r \in RowsOf(trackers, 1, resp.user) : r.is_read /\ r.read_at = 1
    /\ \A r \in BagToSet(trackers) : r.is_read => r.user_id = resp.user

(***************************************************************************)
(* Resolution and the composed view over every grant table of the four     *)
(* access types.                                                           *)
(***************************************************************************)
NextView ==
    \/ \E u \in UserIds, t \in ViewAccessTypes : \E d \in AccessData(t) : AssignAccess(u, t, d)
    \/ \E g \in grants : DisableAccess(g)
    \/ \E u \in UserIds : AssignedLocations(u)
    \/ \E u \in UserIds : ComposedView(u)

SpecView == Init /\ [][NextView]_vars

(***************************************************************************)
(* The configuration read path over every grant table of location grants   *)
(* and every set of disabled locations.                                    *)
(***************************************************************************)
NextResources ==
    \/ \E u \in UserIds : \E d \in AccessData("location") : AssignAccess(u, "location", d)
    \/ \E g \in grants : DisableAccess(g)
    \/ \E l \in LocationIds : DisableLocation(l)
    \/ \E u \in UserIds, scope \in ScopeEnum : GetAssignedResources(u, scope)

SpecResources == Init /\ [][NextResources]_vars

(***************************************************************************)
(* The requests that read and write trackers, next to the listings: alerts *)
(* (commit by commit), marks and the three read endpoints, for the users   *)
(* and locations of RaceUsers and RaceLocations.                           *)
(***************************************************************************)
NextFrame ==
    \/ \E l \in RaceLocations : AlertBegin(l, <<TRUE, FALSE>>)
    \/ \E s \in inflight, u \in UserIds : AlertTracker(s, u)
    \/ \E u \in RaceUsers, n \in 1..MaxNotifications : MarkAsRead(u, <<n>>)
    \/ \E u \in RaceUsers : GetNotifications(u, "all")
    \/ \E u \in RaceUsers : GetUnreadCount(u)
    \/ \E u \in RaceUsers : GetMyNotifications(u, "unread")

SpecFrame == InitRead /\ [][NextFrame]_vars

(***************************************************************************)
(* Properties of the read state across requests.                           *)
(***************************************************************************)
\* C11: the read state only moves forward: a tracker that has is_read true
\* stays the single row of its pair, with is_read true and the same
\* read_at, in every later state.
C11_ReadStaysRead ==
    [][\A r \in BagToSet(trackers) :
            r.is_read => RowsOf(trackers', r.notification_id, r.user_id) = {r}
      ]_vars

\* C12: a mark-as-read call succeeds and, for every existing notification
\* it names for which the user had no tracker, leaves exactly one tracker of
\* the pair, created read with read_at set; also when the list names an id
\* more than once.
C12_UnseenBecomesRead ==
    [][(/\ resp'.op = "mark_as_read"
        /\ Range(resp'.notification_ids) \subseteq DOMAIN notifications)
       => \A n \in Range(resp'.notification_ids) :
            RowsOf(trackers, n, resp'.user) = {} =>
                /\ resp'.status = 200
                /\ Cardinality(RowsOf(trackers', n, resp'.user)) = 1
                /\ \A r \in RowsOf(trackers', n, resp'.user) :
                        /\ CopiesIn(r, trackers') = 1
                        /\ r.is_read
                        /\ r.read_at # NoneVal
      ]_vars

\* C13: overlapping mark-as-read calls for the same pair are both safe:
\* a call that returns when the pairs it names are already read, whether
\* by itself or by a call that overlapped it, completes without an error,
\* and exactly one tracker exists for each pair.
C13_ConcurrentMarksSucceed ==
    (/\ resp.op = "mark_as_read"
     /\ Range(resp.notification_ids) \subseteq DOMAIN notifications
     /\ \A n \in Range(resp.notification_ids) :
            \E r \in RowsOf(trackers, n, resp.user) : r.is_read)
        => /\ resp.status = 200
           /\ \A n \in Range(resp.notification_ids) : TrackerCount(n, resp.user) = 1

\* C14: notification rows are immutable after creation: every step keeps
\* every existing notification row as it is, and mark-as-read, the tracker
\* commits of an alert, the listings and the unread count create no
\* notification row either and leave the grants and the catalog alone.
C14_NotificationsImmutable ==
    [][/\ Len(notifications') >= Len(notifications)
       /\ \A i \in DOMAIN notifications : notifications'[i] = notifications[i]
       /\ (\/ resp'.op \in {"mark_as_read", "list", "unread_count", "my_notifications"}
           \/ \E s \in inflight : s.kind = "alert" /\ s \notin inflight')
            => /\ notifications' = notifications
               /\ grants' = grants
               /\ locations' = locations
      ]_vars

\* A listing was answered while the one notification has a tracker that a
\* mark-as-read call made read next to one the alert created unread.
C14_Witness ==
    /\ resp.op = "list"
    /\ Len(notifications) = 1
    /\ \E r \in BagToSet(trackers) : r.is_read
    /\ \E r \in BagToSet(trackers) : ~r.is_read
    /\ resp.notifications # {}

(***************************************************************************)
(* Properties of the composed view.                                        *)
(***************************************************************************)
\* The set a grant class resolves to for a class without company: nothing
\* without a live grant, every active resource under a wildcard, the named
\* active resources otherwise.
ResolvedOfClass(u, t, active) ==
    IF LiveGrants(u, t) = {} THEN {}
    ELSE IF \E g \in LiveGrants(u, t) : g.access_data.kind = "null" THEN active
    ELSE UNION {g.access_data.access_ids : g \in LiveGrants(u, t)} \cap active

ResolvedTabs(u) ==
    ResolvedOfClass(u, "tab", {t \in TabIds : ~MstTab[t].disabled /\ ~MstTab[t].is_deleted})

ResolvedComponents(u) ==
    ResolvedOfClass(u, "component",
                    {c \in ComponentIds : ~MstComponent[c].disabled /\ ~MstComponent[c].is_deleted})

\* C15: the view lists the user's resolved tabs, each once, in ascending
\* display_order, and under each tab exactly the resolved components whose
\* tab_id is that tab; a resolved component whose tab is not resolved is
\* under no tab.
C15_TabsOrderedComponentsNested ==
    resp.op = "composed_view" =>
        LET tabs == resp.tabs
        IN  /\ {tabs[i].tab_id : i \in DOMAIN tabs} = ResolvedTabs(resp.user)
            /\ Len(tabs) = Cardinality(ResolvedTabs(resp.user))
            /\ \A i \in DOMAIN tabs :
                    /\ tabs[i].display_order = MstTab[tabs[i].tab_id].display_order
                    /\ i < Len(tabs) => tabs[i].display_order <= tabs[i + 1].display_order
                    /\ LET components == tabs[i].components
                           mine == {c \in ResolvedComponents(resp.user) :
                                        MstComponent[c].tab_id = tabs[i].tab_id}
                       IN  /\ {components[k].component_id : k \in DOMAIN components} = mine
                           /\ Len(components) = Cardinality(mine)

\* A view with three tabs, the first with a smaller display_order than the
\* last, one of them carrying two components.
C15_Witness ==
    /\ resp.op = "composed_view"
    /\ Len(resp.tabs) = 3
    /\ resp.tabs[1].display_order < resp.tabs[3].display_order
    /\ \E i \in DOMAIN resp.tabs : Len(resp.tabs[i].components) = 2

\* C16: the view lists the locations in ascending order of location_name
\* and, within each location, the checkpoints in ascending sequence_order.
C16_LocationsAndCheckpointsSorted ==
    resp.op = "composed_view" =>
        \A i \in DOMAIN resp.locations :
            /\ i < Len(resp.locations) =>
                    resp.locations[i].location_name <= resp.locations[i + 1].location_name
            /\ LET checkpoints == resp.locations[i].checkpoints
               IN  \A k \in DOMAIN checkpoints :
                        k < Len(checkpoints) =>
                            checkpoints[k].sequence_order <= checkpoints[k + 1].sequence_order

\* C17: every component of the view carries the can_view, can_create,
\* can_update and can_delete bits of the user's component grant that
\* resolved it, whether that grant is explicit or a wildcard.
C17_PermissionsAreTheGrants ==
    resp.op = "composed_view" =>
        \A i \in DOMAIN resp.tabs : \A k \in DOMAIN resp.tabs[i].components :
            LET component == resp.tabs[i].components[k]
            IN  \A g \in LiveGrants(resp.user, "component") :
                    (\/ g.access_data.kind = "null"
                     \/ component.component_id \in g.access_data.access_ids)
                        => component.permissions =
                                [can_view |-> g.can_view, can_create |-> g.can_create,
                                 can_update |-> g.can_update, can_delete |-> g.can_delete]

\* The checkpoint set the Scope Expander resolves for user u: active
\* checkpoints only, bounded by the user's company unless the user is a
\* creator.
ResolvedCheckpoints(u) ==
    LET active == {c \in CheckpointIds : ~MstCheckpoint[c].disabled /\ ~MstCheckpoint[c].is_deleted}
        scope == IF MstUser[u].role = "creator" THEN active
                 ELSE active \cap CheckpointsOfCompany(MstUser[u].company_id)
    IN  ResolvedOfClass(u, "checkpoint", scope)

\* C18: in the view every listed checkpoint is active, is in the user's
\* resolved checkpoint set and is under its own location; every listed
\* camera is active and belongs to the checkpoint it is under; every listed
\* compute box is active and belongs to the location it is under.
C18_NestedResourcesResolved ==
    resp.op = "composed_view" =>
        \A i \in DOMAIN resp.locations :
            LET loc == resp.locations[i]
            IN  /\ \A b \in loc.compute_boxes :
                        /\ ~MstComputeBox[b].disabled /\ ~MstComputeBox[b].is_deleted
                        /\ MstComputeBox[b].location_id = loc.location_id
                /\ \A k \in DOMAIN loc.checkpoints :
                        LET cp == loc.checkpoints[k]
                        IN  /\ ~MstCheckpoint[cp.checkpoint_id].disabled
                            /\ ~MstCheckpoint[cp.checkpoint_id].is_deleted
                            /\ MstCheckpoint[cp.checkpoint_id].location_id = loc.location_id
                            /\ cp.checkpoint_id \in ResolvedCheckpoints(resp.user)
                            /\ \A c \in cp.cameras :
                                    /\ ~MstCamera[c].disabled /\ ~MstCamera[c].is_deleted
                                    /\ MstCamera[c].checkpoint_id = cp.checkpoint_id

\* C19: resolution and composition are pure reads, and repeatable: they
\* change neither grants nor catalog, and a call that directly follows the
\* same call of the same user, with no data change between them, returns
\* the same response, the order of every list included.
C19_ReadsArePureAndRepeatable ==
    [][resp'.op \in {"assigned_locations", "composed_view"} =>
        /\ grants' = grants
        /\ locations' = locations
        /\ (resp.op = resp'.op /\ resp.user = resp'.user) => resp' = resp
      ]_vars

(***************************************************************************)
(* C20: resolving a user's assigned resources through the configuration    *)
(* read path never surfaces an internal error: for every authenticated     *)
(* user and every grant state the response is a success that carries the   *)
(* cameras or the checkpoints of the user's resolved locations, and the    *)
(* empty result with total_count 0 when the user has no location access.   *)
(***************************************************************************)
C20_AssignedResourcesNeverFail ==
    resp.op = "assigned_resources" =>
        LET location_ids == ResolvedLocations(resp.user)
            resources == IF resp.scope = "checkpoints"
                         THEN get_checkpoints_by_locations(location_ids)
                         ELSE get_cameras_by_locations(location_ids)
        IN  /\ resp.status = 200
            /\ resp.data = IdList(resources)
            /\ resp.total_count = Cardinality(resources)
            /\ (location_ids = {} => resp.total_count = 0)

(***************************************************************************)
(* Resolution over grant tables whose location rows may hold malformed     *)
(* payloads.                                                               *)
(***************************************************************************)
NextMalformed ==
    \/ \E u \in UserIds : \E d \in AccessData("location") \cup MalformedData : AssignAccess(u, "location", d)
    \/ \E g \in grants : DisableAccess(g)
    \/ \E u \in UserIds : AssignedLocations(u)
    \/ \E u \in UserIds : WatchlistScope(u)
    \/ \E u \in UserIds : WatchlistNoAccess(u)
    \/ \E u \in UserIds : AccessControlView(u)
    \/ \E l \in LocationIds : SendWatchlistAlert(l, <<TRUE, FALSE>>)
    \/ \E u \in UserIds : GetMyNotifications(u, "all")

SpecMalformed == Init /\ [][NextMalformed]_vars

\* The ids named by the well-formed active location grants of u.
WellFormedIds(u) ==
    UNION {g.access_data.access_ids : g \in {h \in LiveGrants(u, "location") : h.access_data.kind = "object"}}

\* u holds an active location wildcard (access_data NULL).
HoldsWildcard(u) == \E g \in LiveGrants(u, "location") : g.access_data.kind = "null"

\* C21: a grant with a malformed scope payload contributes no ids in every
\* resolver: for a user without a NULL location grant the access-control
\* view, the assigned locations, the watchlist scope and the notifications
\* listed by location stay within the ids of the user's well-formed grants,
\* a fan-out reaches only users that hold a wildcard or name the location in
\* a well-formed grant, and no operation fails.
C21_MalformedGrantContributesNothing ==
    /\ (resp.op = "access_control" /\ ~HoldsWildcard(resp.user)) =>
            /\ resp.status = 200
            /\ {r.location_id : r \in resp.locations} \subseteq WellFormedIds(resp.user)
    /\ (resp.op \in {"assigned_locations", "watchlist_scope"} /\ ~HoldsWildcard(resp.user)) =>
            /\ ~resp.location_ids.is_none
            /\ resp.location_ids.ids \subseteq WellFormedIds(resp.user)
    /\ (resp.op = "my_notifications" /\ ~HoldsWildcard(resp.user)) =>
            \A row \in resp.notifications :
                \/ notifications[row.notification_id].user_id = resp.user
                \/ notifications[row.notification_id].location_id \in WellFormedIds(resp.user)
    /\ (resp.op = "send_watchlist_alert" /\ resp.notification_id # NoneVal) =>
            \A v \in TrackedUsers(resp.notification_id) :
                HoldsWildcard(v) \/ resp.location_id \in WellFormedIds(v)

(***************************************************************************)
(* Resolution over grant tables that hold more than one row of a           *)
(* (user, class): rows that uq_user_access_type rejects on insert, present *)
(* in a table only through a data anomaly.                                 *)
(***************************************************************************)
\* The rows of such a table.
AnomalyRows ==
    UNION {{[user_id |-> u, access_type |-> t, access_data |-> d,
             can_view |-> TRUE, can_create |-> FALSE, can_update |-> FALSE,
             can_delete |-> FALSE, disabled |-> FALSE, is_deleted |-> FALSE] :
                u \in UserIds, d \in AccessData(t)} : t \in AccessTypes}

InitAnomaly ==
    /\ grants \in {T \in SUBSET AnomalyRows : Cardinality(T) <= MaxGrants}
    /\ locations = MstLocation
    /\ notifications = <<>>
    /\ trackers = EmptyBag
    /\ clock = 1
    /\ inflight = {}
    /\ vehicles = <<>>
    /\ vehicle_logs = <<>>
    /\ watchlist = <<>>
    /\ resp = NoResp

NextAnomaly ==
    \/ \E g \in grants : DisableAccess(g)
    \/ \E l \in LocationIds : DisableLocation(l)
    \/ \E u \in UserIds : AssignedLocations(u)
    \/ \E u \in UserIds : WatchlistScope(u)
    \/ \E u \in UserIds : WatchlistNoAccess(u)

SpecAnomaly == InitAnomaly /\ [][NextAnomaly]_vars

\* The live checkpoints of the live locations of company c.
LiveCheckpointsOf(c) ==
    {cp \in DOMAIN MstCheckpoint :
        /\ ~MstCheckpoint[cp].disabled /\ ~MstCheckpoint[cp].is_deleted
        /\ MstCheckpoint[cp].location_id \in LiveLocationsOf(c)}

\* u holds two or more active grants of class t, one of them a wildcard.
WildcardAmongSeveral(u, t) ==
    /\ Cardinality(LiveGrants(u, t)) >= 2
    /\ \E g \in LiveGrants(u, t) : g.access_data.kind = "null"

\* C22: when a user holds two or more active grants of one class and one of
\* them is a wildcard, get_user_assigned_locations and
\* extract_accessible_locations_checkpoints return the wildcard-derived set
\* (every live resource of the class, of the user's company for a
\* non-creator, "all" for a creator in the watchlist scope), whatever ids
\* the explicit rows name; never its union with the explicit ids.
C22_WildcardWinsOverExplicit ==
    /\ (IsResolution /\ WildcardAmongSeveral(resp.user, "location")) =>
            IF MstUser[resp.user].role # "creator"
            THEN resp.location_ids = IdList(LiveLocationsOf(MstUser[resp.user].company_id))
            ELSE resp.location_ids \in {NoneList, IdList(LiveLocations)}
    /\ (resp.op = "watchlist_scope" /\ WildcardAmongSeveral(resp.user, "checkpoint")) =>
            IF MstUser[resp.user].role # "creator"
            THEN resp.checkpoint_ids = IdList(LiveCheckpointsOf(MstUser[resp.user].company_id))
            ELSE resp.checkpoint_ids = NoneList

\* User 1 (company 1) holds a wildcard and the explicit set {1, 3, 9} for
\* locations; the resolution returns locations 1 and 2 only.
C22_Witness ==
    /\ IsResolution
    /\ resp.user = 1
    /\ WildcardAmongSeveral(1, "location")
    /\ \E g \in LiveGrants(1, "location") : g.access_data = JsonIds({1, 3, 9})
    /\ resp.location_ids = IdList({1, 2})

(***************************************************************************)
(* Properties of a fan-out in which a tracker creation fails.              *)
(***************************************************************************)
\* The alert sessions of a state that still have user u to serve.
AlertsPending(sessions, u) == {s \in sessions : s.kind = "alert" /\ u \in s.user_ids}

\* C23: when creating the tracker of one recipient fails during a fan-out,
\* the fan-out continues with the remaining recipients: at each step of the
\* loop the notification row remains, a recipient that has no tracker of the
\* notification gets one with is_read = false, and the count grows by one
\* exactly when a tracker row was created.
C23_FanoutSurvivesTrackerFailure ==
    [][\A s \in inflight, u \in UserIds :
        (s \in AlertsPending(inflight, u) /\ s \notin inflight'
            /\ \A t \in AlertsPending(inflight', u) : t.notification_ids # s.notification_ids) =>
            LET n == s.notification_ids[1]
                created == IF TrackerCount(n, u) = 0 THEN 1 ELSE 0
                count_after == IF \E t \in inflight' : t.kind = "alert" /\ t.notification_ids = s.notification_ids
                               THEN (CHOOSE t \in inflight' : t.kind = "alert" /\ t.notification_ids = s.notification_ids).count
                               ELSE resp'.count
            IN  /\ n \in DOMAIN notifications'
                /\ TrackerCount(n, u) = 0 =>
                        [notification_id |-> n, user_id |-> u, is_read |-> FALSE,
                         read_at |-> NoneVal] \in BagToSet(trackers')
                /\ count_after = s.count + created
      ]_vars

\* The notifications whose fan-out has committed the row and has not yet
\* served every recipient.
FanoutsInFlight == {s.notification_ids[1] : s \in {t \in inflight : t.kind = "alert"}}

\* C24: the notification row and the tracker rows of a fan-out are written
\* in one transaction: no listing and no mark-as-read call observes the
\* notification of a fan-out that has not committed all its trackers, and a
\* fan-out that creates no tracker leaves no notification row behind.
C24_FanoutIsOneTransaction ==
    /\ resp.op \in {"list", "my_notifications"} =>
            \A row \in resp.notifications : row.notification_id \notin FanoutsInFlight
    /\ (resp.op = "mark_as_read" /\ resp.status = 200) =>
            \A i \in DOMAIN resp.notification_ids : resp.notification_ids[i] \notin FanoutsInFlight
    /\ (resp.op = "send_watchlist_alert" /\ resp.count = 0) => resp.notification_id = NoneVal

(***************************************************************************)
(* Agreement of the read paths.                                            *)
(***************************************************************************)
LocationReads == {"assigned_locations", "watchlist_scope", "access_control"}

\* The location ids a response of one of the three read paths carries.
LocationsOfResponse(r) ==
    IF r.op = "access_control" THEN {x.location_id : x \in r.locations}
    ELSE r.location_ids.ids

\* C25: the location resolvers of the read paths agree: for a non-creator
\* user, two reads of the same grant table and catalog through
\* get_user_assigned_locations, extract_accessible_locations_checkpoints
\* and the access-control view carry the same set of location ids.
C25_ReadPathsAgree ==
    [][(/\ resp.op \in LocationReads
        /\ resp'.op \in LocationReads
        /\ resp'.user = resp.user
        /\ MstUser[resp.user].role # "creator")
            => /\ (resp.op # "access_control" => ~resp.location_ids.is_none)
               /\ LocationsOfResponse(resp') = LocationsOfResponse(resp)
      ]_vars

(***************************************************************************)
(* Read state is per user.                                                 *)
(***************************************************************************)
\* The tracker rows of user u.
TrackersOf(u) == {r \in BagToSet(trackers) : r.user_id = u}

\* What user u is shown: the listing of every read status, and the unread
\* count.
ShownTo(u) ==
    [rows |-> get_user_notifications(u, MstUser[u].company_id, "all"),
     unread_count |-> get_unread_count(u, MstUser[u].company_id)]

\* No notification passes its expiry in the step.
NothingExpires == \A n \in DOMAIN notifications : BaseFilter(n)' = BaseFilter(n)

\* C26: a mark-as-read call by user A creates or changes no tracker row of
\* another user, and the is_read / read_at another user B is shown for the
\* same notifications, and B's unread count, are the same before and after
\* the call.
C26_ReadStateIsPerUser ==
    [][resp'.op = "mark_as_read" =>
        \A b \in UserIds \ {resp'.user} :
            /\ TrackersOf(b)' = TrackersOf(b)
            /\ NothingExpires => ShownTo(b)' = ShownTo(b)
      ]_vars

\* User A has marked a broadcast notification as read for which another
\* user holds an unread tracker.
C26_Witness ==
    /\ resp.op = "mark_as_read"
    /\ resp.status = 200
    /\ resp.marked_count = 1
    /\ \E r \in BagToSet(trackers) :
            /\ r.notification_id = resp.notification_ids[1]
            /\ r.user_id = resp.user /\ r.is_read
    /\ \E r \in BagToSet(trackers) :
            /\ r.notification_id = resp.notification_ids[1]
            /\ r.user_id # resp.user /\ ~r.is_read


(***************************************************************************)
(* The vehicle pipeline: mst_vehicles, trn_vehicle_log, mst_watchlist.     *)
(***************************************************************************)
MaxDetections == 3
MaxOperations == 2

\* Plate numbers as the edge devices and the dashboard send them.
PlateInputs == {" ka01 ", "KA01", "KA02"}

\* str.strip().upper()
strip_upper(s) == IF s = " ka01 " THEN "KA01" ELSE s

\* Timestamps "YYYY-MM-DD HH:MM:SS", as <<date, time of day>>.
Timestamps == {<<1, 1>>, <<1, 2>>, <<2, 1>>}

\* payload.timestamp.split(" ")[0]
split_date(timestamp) == timestamp[1]

\* func.date(TrnVehicleLog.first_seen)
func_date(first_seen) == first_seen[1]

\* The detection payloads (payload.data) of the edge devices.
DetectionData == {"frame_a", "frame_b"}

\* Detections arrive from a location of company 1 and one of company 2.
DetectionLocations == {1, 3}

VehicleDetectionRequest ==
    [plate_number : PlateInputs, vehicle_type : {"car"}, timestamp : Timestamps,
     location_id : DetectionLocations, data : DetectionData]

\* db.query(MstVehicle).filter(MstVehicle.plate_number == plate_number)
vehicles_by_plate(rows, plate_number) ==
    {v \in DOMAIN rows : rows[v].plate_number = plate_number}

\* The watchlist query of the detection (edge/routes.py:218-222): the rows
\* of the vehicle that are neither deleted nor disabled, of any company.
active_watchlist_entries(vehicle_id) ==
    {w \in DOMAIN watchlist :
        /\ watchlist[w].vehicle_id = vehicle_id
        /\ ~watchlist[w].is_deleted
        /\ ~watchlist[w].disabled}

\* The existing-log query with first_seen compared to the whole timestamp.
existing_logs_ByTimestamp(vehicle_id, timestamp) ==
    {i \in DOMAIN vehicle_logs :
        /\ vehicle_logs[i].vehicle_id = vehicle_id
        /\ vehicle_logs[i].first_seen = timestamp}

\* The existing-log query (edge/routes.py:231-239).
existing_logs(vehicle_id, timestamp) ==
    {i \in DOMAIN vehicle_logs :
        /\ vehicle_logs[i].vehicle_id = vehicle_id
        /\ func_date(vehicle_logs[i].first_seen) = split_date(timestamp)}

\* The detections handled so far: each one left one element in a history.
RECURSIVE DetectionCount(_)
DetectionCount(rows) ==
    IF rows = <<>> THEN 0
    ELSE Len(Head(rows).history_data) + DetectionCount(Tail(rows))

\* edge/routes.py:261-272
new_log(vehicle_id, payload) ==
    [vehicle_id |-> vehicle_id, location_id |-> payload.location_id,
     first_seen |-> payload.timestamp, last_seen |-> payload.timestamp,
     history_data |-> <<payload.data>>, latest_data |-> payload.data,
     is_revised |-> FALSE, revised_data |-> NoneVal]

\* edge/routes.py:246-251
updated_log(log, payload) ==
    [log EXCEPT !.history_data = Append(@, payload.data),
                !.latest_data = payload.data,
                !.last_seen = payload.timestamp]

\* POST /edge/vehicle-detection.  The handler is a coroutine that never
\* awaits, so one request runs to its end before the next one starts.
VehicleDetection(payload) ==
    LET plate_number == strip_upper(payload.plate_number)
        found == vehicles_by_plate(vehicles, plate_number)
        rows == IF found = {}
                THEN Append(vehicles, [plate_number |-> plate_number,
                                       vehicle_type |-> payload.vehicle_type])
                ELSE vehicles
        vehicle_id == IF found = {} THEN Len(rows) ELSE CHOOSE v \in found : TRUE
        entries == active_watchlist_entries(vehicle_id)
        logs == existing_logs(vehicle_id, payload.timestamp)
    IN  /\ DetectionCount(vehicle_logs) < MaxDetections
        /\ \E watchlist_entry \in (IF entries = {} THEN {NoneVal} ELSE entries),
              existing_log \in (IF logs = {} THEN {NoneVal} ELSE logs) :
            LET is_blacklisted == IF watchlist_entry = NoneVal THEN FALSE
                                  ELSE watchlist[watchlist_entry].is_blacklisted
                is_whitelisted == IF watchlist_entry = NoneVal THEN FALSE
                                  ELSE watchlist[watchlist_entry].is_whitelisted
                log_status == IF existing_log = NoneVal THEN "created" ELSE "updated"
                company_id == IF payload.location_id \in DOMAIN locations
                              THEN locations[payload.location_id].company_id
                              ELSE NoneVal
                alerting == /\ log_status = "created"
                            /\ watchlist_entry # NoneVal
                            /\ (is_blacklisted \/ is_whitelisted)
                            /\ company_id # NoneVal
                sent == send_watchlist_alert(company_id, payload.location_id,
                                             is_blacklisted, is_whitelisted)
            IN  /\ vehicles' = rows
                /\ vehicle_logs' =
                        IF existing_log = NoneVal
                        THEN Append(vehicle_logs, new_log(vehicle_id, payload))
                        ELSE [vehicle_logs EXCEPT
                                ![existing_log] = updated_log(@, payload)]
                /\ notifications' = IF alerting THEN sent.notifications ELSE notifications
                /\ trackers' = IF alerting THEN sent.trackers ELSE trackers
                /\ resp' = [op |-> "vehicle_detection", status |-> 200,
                            request |-> payload,
                            vehicle_id |-> vehicle_id,
                            plate_number |-> plate_number,
                            is_blacklisted |-> is_blacklisted,
                            is_whitelisted |-> is_whitelisted,
                            watchlist_id |-> watchlist_entry,
                            log_status |-> log_status,
                            log_id |-> IF existing_log = NoneVal
                                       THEN Len(vehicle_logs) + 1 ELSE existing_log,
                            notification_sent |-> alerting,
                            notification_count |-> IF alerting THEN sent.count ELSE NoneVal]
    /\ UNCHANGED <<watchlist, grants, locations, clock, inflight>>

(***************************************************************************)
(* dashboard/routes.py: fix_vehicle_number                                 *)
(***************************************************************************)
\* Plate numbers typed into the dashboard's correction form.
FixValues == {"KA01", "KA01 ", "KA09"}

\* str.strip()
strip(s) == IF s = "KA01 " THEN "KA01" ELSE s

\* The forms name the first two log rows or a row that does not exist.
FixVehicleNumberRequest ==
    [record_id : {1, 2, 9}, old_value : FixValues, new_value : FixValues]

\* fix_vehicle_number without the "already revised" test of lines 361-367.
fix_vehicle_number_AlwaysRevises(rows, username, request) ==
    IF strip(request.old_value) = strip(request.new_value)
    THEN [status |-> 400, rows |-> rows]
    ELSE IF request.record_id \notin DOMAIN rows
    THEN [status |-> 404, rows |-> rows]
    ELSE [status |-> 200,
          rows |-> [rows EXCEPT ![request.record_id] =
                        [@ EXCEPT !.is_revised = TRUE,
                                  !.revised_data =
                                      [old_number |-> request.old_value,
                                       new_number |-> request.new_value,
                                       changed_by |-> username]]]]

fix_vehicle_number(rows, username, request) ==
    IF strip(request.old_value) = strip(request.new_value)
    THEN [status |-> 400, rows |-> rows]
    ELSE IF request.record_id \notin DOMAIN rows
    THEN [status |-> 404, rows |-> rows]
    ELSE IF rows[request.record_id].is_revised
    THEN [status |-> 400, rows |-> rows]
    ELSE [status |-> 200,
          rows |-> [rows EXCEPT ![request.record_id] =
                        [@ EXCEPT !.is_revised = TRUE,
                                  !.revised_data =
                                      [old_number |-> request.old_value,
                                       new_number |-> request.new_value,
                                       changed_by |-> username]]]]

\* POST /dashboard/fix-vehicle-number
FixVehicleNumber(u, request) ==
    /\ Authenticated(u)
    /\ LET fixed == fix_vehicle_number(vehicle_logs, u, request)
       IN  /\ vehicle_logs' = fixed.rows
           /\ resp' = [op |-> "fix_vehicle_number", user_id |-> u,
                       status |-> fixed.status, request |-> request]
    /\ UNCHANGED <<vehicles, watchlist, grants, locations, notifications, trackers,
                   clock, inflight>>

(***************************************************************************)
(* watchlist/routes.py: add_to_watchlist                                   *)
(***************************************************************************)
\* The (is_blacklisted, is_whitelisted) pairs of an AddWatchlistRequest.
WatchlistFlags == {<<TRUE, FALSE>>, <<FALSE, TRUE>>, <<FALSE, FALSE>>}

\* An absent plate_number (None, falsy as the empty string is).
NoPlate == ""

\* The requests name a vehicle by id or by plate number, or by neither.
AddWatchlistRequest ==
    [vehicle_id : {NoneVal, 1, 3}, plate_number : {NoPlate, " ka01 ", "KA02"},
     flags : WatchlistFlags]

\* The existing-entry query without its company filter.
existing_entries_AnyCompany(rows, vehicle_id, company_id) ==
    {w \in DOMAIN rows :
        /\ rows[w].vehicle_id = vehicle_id
        /\ ~rows[w].is_deleted}

\* watchlist/routes.py:175-179
existing_entries(rows, vehicle_id, company_id) ==
    {w \in DOMAIN rows :
        /\ rows[w].vehicle_id = vehicle_id
        /\ rows[w].company_id = company_id
        /\ ~rows[w].is_deleted}

\* The calls that wrote to the watchlist so far: each one left one record.
RECURSIVE OperationCount(_)
OperationCount(rows) ==
    IF rows = <<>> THEN 0
    ELSE Len(Head(rows).operation_data) + OperationCount(Tail(rows))

\* watchlist/routes.py:193-204 and 239-249
operation_record(operation_number, action, username, request) ==
    [operation_number |-> operation_number, action |-> action, added_by |-> username,
     is_blacklisted |-> request.flags[1], is_whitelisted |-> request.flags[2]]

\* POST /watchlist/
AddToWatchlist(u, request) ==
    /\ Authenticated(u)
    /\ LET company_id == MstUser[u].company_id
           by_id == request.vehicle_id # NoneVal
           plate_number == strip_upper(request.plate_number)
           found == IF by_id
                    THEN {v \in DOMAIN vehicles : v = request.vehicle_id}
                    ELSE vehicles_by_plate(vehicles, plate_number)
           rows == IF ~by_id /\ found = {}
                   THEN Append(vehicles, [plate_number |-> plate_number,
                                          vehicle_type |-> "Blacklisted"])
                   ELSE vehicles
           vehicle_id == IF found = {} THEN Len(rows) ELSE CHOOSE v \in found : TRUE
           entries == existing_entries(watchlist, vehicle_id, company_id)
       IN  IF request.vehicle_id = NoneVal /\ request.plate_number = NoPlate
           THEN /\ resp' = [op |-> "add_to_watchlist", user_id |-> u, status |-> 400,
                            request |-> request]
                /\ UNCHANGED <<vehicles, watchlist>>
           ELSE IF by_id /\ found = {}
           THEN /\ resp' = [op |-> "add_to_watchlist", user_id |-> u, status |-> 404,
                            request |-> request]
                /\ UNCHANGED <<vehicles, watchlist>>
           ELSE /\ OperationCount(watchlist) < MaxOperations
                /\ \E existing_entry \in (IF entries = {} THEN {NoneVal} ELSE entries) :
                    /\ vehicles' = rows
                    /\ watchlist' =
                         IF existing_entry # NoneVal
                         THEN [watchlist EXCEPT ![existing_entry] =
                                 [@ EXCEPT
                                    !.operation_data =
                                        Append(@, operation_record(
                                                    Len(watchlist[existing_entry].operation_data) + 1,
                                                    "updated", u, request)),
                                    !.is_blacklisted = request.flags[1],
                                    !.is_whitelisted = request.flags[2]]]
                         ELSE Append(watchlist,
                                 [vehicle_id |-> vehicle_id, company_id |-> company_id,
                                  is_blacklisted |-> request.flags[1],
                                  is_whitelisted |-> request.flags[2],
                                  operation_data |-> <<operation_record(1, "added", u, request)>>,
                                  disabled |-> FALSE, is_deleted |-> FALSE])
                    /\ resp' = [op |-> "add_to_watchlist", user_id |-> u, status |-> 200,
                                request |-> request,
                                vehicle_created |-> (~by_id /\ found = {}),
                                id |-> IF existing_entry # NoneVal THEN existing_entry
                                       ELSE Len(watchlist) + 1,
                                vehicle_id |-> vehicle_id,
                                company_id |-> company_id]
    /\ UNCHANGED <<vehicle_logs, grants, locations, notifications, trackers, clock, inflight>>

(***************************************************************************)
(* The detections of one edge device at location 1, whose frame is that of *)
(* the time of day, and the watchlist of company 1.                        *)
(***************************************************************************)
FrameAt(timestamp) == IF timestamp[2] = 1 THEN "frame_a" ELSE "frame_b"

EdgePayloads ==
    {p \in VehicleDetectionRequest :
        p.location_id = 1 /\ p.data = FrameAt(p.timestamp)}

\* Company 1 puts plate KA01 on its watchlist, or changes its flags.
EdgeWatchlistRequests ==
    {r \in AddWatchlistRequest :
        r.vehicle_id = NoneVal /\ r.plate_number = " ka01 " /\ r.flags[2] = FALSE}

NextDetect ==
    \/ \E payload \in EdgePayloads : VehicleDetection(payload)
    \/ \E request \in EdgeWatchlistRequests : AddToWatchlist(1, request)

SpecDetect == InitRead /\ [][NextDetect]_vars

\* The dashboard corrects the logs of plate KA01.
FixPayloads == {p \in EdgePayloads : p.plate_number = "KA01"}

NextFix ==
    \/ \E payload \in FixPayloads : VehicleDetection(payload)
    \/ \E request \in FixVehicleNumberRequest : FixVehicleNumber(1, request)

SpecFix == InitRead /\ [][NextFix]_vars

\* The detections of plate KA01 at the locations of both companies, while
\* users 1 (company 1) and 4 (company 2) keep their companies' watchlists.
TenantPayloads ==
    {p \in VehicleDetectionRequest :
        p.plate_number = "KA01" /\ p.data = FrameAt(p.timestamp)}

TenantWatchlistRequests ==
    {r \in AddWatchlistRequest :
        r.vehicle_id = NoneVal /\ r.plate_number = " ka01 " /\ r.flags[2] = FALSE}

WatchlistUsers == {1, 4}

NextTenant ==
    \/ \E payload \in TenantPayloads : VehicleDetection(payload)
    \/ \E u \in WatchlistUsers, request \in TenantWatchlistRequests : AddToWatchlist(u, request)

SpecTenant == InitRead /\ [][NextTenant]_vars

\* The watchlist desk: both companies' users send every request.
NextWatchlist ==
    \E u \in WatchlistUsers, request \in AddWatchlistRequest : AddToWatchlist(u, request)

SpecWatchlist == InitRead /\ [][NextWatchlist]_vars

(***************************************************************************)
(* Properties of the vehicle pipeline.                                     *)
(***************************************************************************)
\* The log rows of a vehicle whose first_seen falls on a date.
LogsOn(rows, vehicle_id, date) ==
    {i \in DOMAIN rows : rows[i].vehicle_id = vehicle_id /\ rows[i].first_seen[1] = date}

\* A step of a vehicle-detection request (every detection writes a log row).
DetectionStep == resp'.op = "vehicle_detection" /\ vehicle_logs' # vehicle_logs

\* C27: over any sequence of detections of one plate on one calendar date
\* there is exactly one log row for that vehicle and date: the request that
\* finds none creates it with its data as the whole history, every later
\* request appends its data to history_data, replaces latest_data and
\* last_seen and changes nothing else, and only the creating request sends
\* a watchlist alert.
C27_OneLogPerVehiclePerDate ==
    [][DetectionStep =>
        LET payload == resp'.request
            v == resp'.vehicle_id
            d == payload.timestamp[1]
            before == LogsOn(vehicle_logs, v, d)
        IN  /\ vehicles'[v].plate_number \in {"KA01", "KA02"}
            /\ payload.plate_number \in {" ka01 ", "KA01"} <=> vehicles'[v].plate_number = "KA01"
            /\ Cardinality(LogsOn(vehicle_logs', v, d)) = 1
            /\ IF before = {}
               THEN /\ resp'.log_status = "created"
                    /\ Len(vehicle_logs') = Len(vehicle_logs) + 1
                    /\ resp'.log_id = Len(vehicle_logs')
                    /\ \A i \in DOMAIN vehicle_logs : vehicle_logs'[i] = vehicle_logs[i]
                    /\ vehicle_logs'[resp'.log_id].vehicle_id = v
                    /\ vehicle_logs'[resp'.log_id].first_seen = payload.timestamp
                    /\ vehicle_logs'[resp'.log_id].last_seen = payload.timestamp
                    /\ vehicle_logs'[resp'.log_id].history_data = <<payload.data>>
                    /\ vehicle_logs'[resp'.log_id].latest_data = payload.data
               ELSE /\ resp'.log_status = "updated"
                    /\ resp'.log_id \in before
                    /\ DOMAIN vehicle_logs' = DOMAIN vehicle_logs
                    /\ \A i \in DOMAIN vehicle_logs :
                          IF i = resp'.log_id
                          THEN /\ vehicle_logs'[i].history_data =
                                     vehicle_logs[i].history_data \o <<payload.data>>
                               /\ vehicle_logs'[i].latest_data = payload.data
                               /\ vehicle_logs'[i].last_seen = payload.timestamp
                               /\ vehicle_logs'[i].first_seen = vehicle_logs[i].first_seen
                               /\ vehicle_logs'[i].vehicle_id = vehicle_logs[i].vehicle_id
                          ELSE vehicle_logs'[i] = vehicle_logs[i]
                    /\ notifications' = notifications
                    /\ trackers' = trackers
                    /\ ~resp'.notification_sent]_vars

\* A second detection of a watchlisted plate on the date of its log, written
\* with other letters and at a later time, after the first one raised the
\* only alert.
C27_Witness ==
    /\ resp.op = "vehicle_detection"
    /\ resp.log_status = "updated"
    /\ resp.is_blacklisted
    /\ Len(vehicle_logs) = 1
    /\ Len(notifications) = 1
    /\ vehicle_logs[1].first_seen = <<1, 1>>
    /\ vehicle_logs[1].last_seen = <<1, 2>>
    /\ vehicle_logs[1].history_data = <<"frame_a", "frame_b">>
    /\ resp.request.plate_number = " ka01 "


\* The two values of a correction are the same plate once trimmed.
SameAfterTrim(request) ==
    \/ request.old_value = request.new_value
    \/ {request.old_value, request.new_value} = {"KA01", "KA01 "}

\* C28: a log is revised at most once.  A fix request answers 200 exactly
\* when its values differ after trimming and its log exists with is_revised
\* false, and it then sets is_revised and revised_data of that row alone; a
\* request on a revised log, or with equal trimmed values, answers 400 and
\* changes no log; no step of any request changes is_revised or revised_data
\* of a revised log.
C28_RevisedAtMostOnce ==
    [][/\ \A i \in DOMAIN vehicle_logs :
            vehicle_logs[i].is_revised =>
                /\ vehicle_logs'[i].is_revised
                /\ vehicle_logs'[i].revised_data = vehicle_logs[i].revised_data
       /\ resp'.op = "fix_vehicle_number" =>
            LET request == resp'.request
                i == request.record_id
                exists == i \in DOMAIN vehicle_logs
            IN  /\ resp'.status = 200 <=>
                      /\ ~SameAfterTrim(request)
                      /\ exists
                      /\ ~vehicle_logs[i].is_revised
                /\ resp'.status = 200 =>
                      /\ vehicle_logs'[i].is_revised
                      /\ vehicle_logs'[i].revised_data.old_number = request.old_value
                      /\ vehicle_logs'[i].revised_data.new_number = request.new_value
                      /\ vehicle_logs'[i].history_data = vehicle_logs[i].history_data
                      /\ \A j \in DOMAIN vehicle_logs \ {i} : vehicle_logs'[j] = vehicle_logs[j]
                /\ resp'.status # 200 => vehicle_logs' = vehicle_logs
                /\ SameAfterTrim(request) => resp'.status = 400
                /\ (exists /\ vehicle_logs[i].is_revised) => resp'.status = 400]_vars

\* A second correction of a revised log, with values that differ, is
\* rejected with 400 and the first correction stays.
C28_Witness ==
    /\ resp.op = "fix_vehicle_number"
    /\ resp.status = 400
    /\ ~SameAfterTrim(resp.request)
    /\ resp.request.record_id \in DOMAIN vehicle_logs
    /\ vehicle_logs[resp.request.record_id].is_revised
    /\ vehicle_logs[resp.request.record_id].revised_data.new_number # resp.request.new_value


\* The watchlist rows of a vehicle that are neither disabled nor deleted and
\* belong to a company.
ActiveEntriesOf(vehicle_id, company_id) ==
    {w \in DOMAIN watchlist :
        /\ watchlist[w].vehicle_id = vehicle_id
        /\ watchlist[w].company_id = company_id
        /\ ~watchlist[w].disabled
        /\ ~watchlist[w].is_deleted}

\* C29: a detection creates a watchlist notification only if the vehicle has
\* an active watchlist entry of the company that owns the detection's
\* location; the entry of another company never makes a detection notify
\* the users of that location.
C29_AlertOnlyForOwnCompanyEntry ==
    [][(DetectionStep /\ Len(notifications') > Len(notifications)) =>
          ActiveEntriesOf(resp'.vehicle_id,
                          locations[resp'.request.location_id].company_id) # {}]_vars


\* The watchlist rows of a (vehicle, company) pair that are not deleted.
EntriesOf(rows, vehicle_id, company_id) ==
    {w \in DOMAIN rows :
        /\ rows[w].vehicle_id = vehicle_id
        /\ rows[w].company_id = company_id
        /\ ~rows[w].is_deleted}

\* The plate a request names, in the spelling of mst_vehicles.
NamedPlate(request) == IF request.plate_number = "KA02" THEN "KA02" ELSE "KA01"

\* C30: after every add_to_watchlist call each (vehicle, company) pair has
\* at most one non-deleted entry and every entry's operation_data is
\* numbered 1..n; a successful call for a pair without an entry inserts one
\* row with the single record 1, a call for a pair with an entry appends
\* record n + 1 with the call's flags to that entry and inserts nothing.
C30_OneEntryPerVehicleAndCompany ==
    [][(resp'.op = "add_to_watchlist" /\ resp'.status = 200) =>
        LET request == resp'.request
            v == resp'.vehicle_id
            c == MstUser[resp'.user_id].company_id
            before == EntriesOf(watchlist, v, c)
        IN  /\ IF request.vehicle_id # NoneVal
               THEN v = request.vehicle_id /\ v \in DOMAIN vehicles
               ELSE vehicles'[v].plate_number = NamedPlate(request)
            /\ \A w \in DOMAIN vehicles', x \in DOMAIN vehicles' :
                  vehicles'[w].plate_number = vehicles'[x].plate_number => w = x
            /\ \A w \in DOMAIN vehicles', d \in {1, 2} :
                  Cardinality(EntriesOf(watchlist', w, d)) <= 1
            /\ \A w \in DOMAIN watchlist' :
                  \A k \in DOMAIN watchlist'[w].operation_data :
                      watchlist'[w].operation_data[k].operation_number = k
            /\ IF before = {}
               THEN /\ Len(watchlist') = Len(watchlist) + 1
                    /\ \A w \in DOMAIN watchlist : watchlist'[w] = watchlist[w]
                    /\ watchlist'[Len(watchlist')].vehicle_id = v
                    /\ watchlist'[Len(watchlist')].company_id = c
                    /\ ~watchlist'[Len(watchlist')].is_deleted
                    /\ Len(watchlist'[Len(watchlist')].operation_data) = 1
                    /\ resp'.id = Len(watchlist')
               ELSE /\ Len(watchlist') = Len(watchlist)
                    /\ resp'.id \in before
                    /\ \A w \in DOMAIN watchlist :
                          IF w = resp'.id
                          THEN /\ Len(watchlist'[w].operation_data) =
                                      Len(watchlist[w].operation_data) + 1
                               /\ \A k \in DOMAIN watchlist[w].operation_data :
                                      watchlist'[w].operation_data[k] =
                                          watchlist[w].operation_data[k]
                               /\ watchlist'[w].vehicle_id = v
                               /\ watchlist'[w].company_id = c
                          ELSE watchlist'[w] = watchlist[w]
            /\ LET entry == watchlist'[resp'.id]
                   last == entry.operation_data[Len(entry.operation_data)]
               IN  /\ last.is_blacklisted = request.flags[1]
                   /\ last.is_whitelisted = request.flags[2]
                   /\ entry.is_blacklisted = request.flags[1]
                   /\ entry.is_whitelisted = request.flags[2]]_vars

\* A vehicle put on the watchlist by its plate is named again by its id:
\* the one entry of the pair holds records 1 and 2.
C30_Witness ==
    /\ resp.op = "add_to_watchlist"
    /\ resp.status = 200
    /\ resp.request.vehicle_id = 1
    /\ ~resp.vehicle_created
    /\ Len(watchlist) = 1
    /\ Len(watchlist[1].operation_data) = 2
    /\ watchlist[1].operation_data[1].action = "added"
    /\ watchlist[1].operation_data[2].action = "updated"
    /\ watchlist[1].operation_data[1].is_blacklisted # watchlist[1].operation_data[2].is_blacklisted

====
